---- MODULE Spec2Model ----
(***************************************************************************)
(* Portfolio risk, stress and alert engine of the CLO warehouse dashboard  *)
(* (src/src/stress.py, src/src/risk_analytics.py, src/src/alerts.py).      *)
(*                                                                         *)
(* Conventions of the model                                                *)
(*  - a float is an exact rational <<n, d>> in lowest terms with d > 0;    *)
(*  - a nullable number (a NaN cell, an Optional argument) is a sequence   *)
(*    of length 0 (missing) or 1 (present);                                *)
(*  - a text cell is a TLA+ string, NaN is the missing text cell, and      *)
(*    Chars(s) is the character sequence of s, on which the substring,     *)
(*    prefix, strip and upper-case operations of the code are computed;    *)
(*  - a DataFrame is [cols |-> set of column names, rows |-> sequence of   *)
(*    row records]; the index of a row is its position;                    *)
(*  - money is counted in thousands of dollars.                            *)
(***************************************************************************)
EXTENDS Integers, Sequences, FiniteSets, TLC

VARIABLES
    df,                \* the asset snapshot handed to the engine
    config,            \* WarehouseConfig of the call
    stress_cfg,        \* StressConfig of the call
    debt_outstanding,  \* argument debt_outstanding
    cash_balance,      \* argument cash_balance
    now,               \* day number of datetime.now()
    configs,           \* Dict[str, WarehouseConfig] of evaluate_global_alerts
    result,            \* value returned by the call
    pc,                \* "start" before the call, "done" after it
    rating_in,         \* the rating string handed to the rating functions
    notches,           \* how often downgrade_one_notch was applied to it
    published,         \* the files of PUBLISHED_DIR: file stem -> tape
    uploads            \* the tape uploads so far, in order

vars == <<df, config, stress_cfg, debt_outstanding, cash_balance, now, configs, result, pc,
          rating_in, notches, published, uploads>>

-----------------------------------------------------------------------------
(* Exact rational arithmetic standing for float arithmetic.                *)

Abs(x) == IF x < 0 THEN -x ELSE x

RECURSIVE GCD(_, _)
GCD(a, b) == IF b = 0 THEN a ELSE GCD(b, a % b)

Rat(n, d) ==
    LET g == GCD(Abs(n), Abs(d))
        s == IF d < 0 THEN -1 ELSE 1
    IN  <<(s * n) \div g, (s * d) \div g>>

R(n) == <<n, 1>>
RAdd(a, b) == Rat(a[1] * b[2] + b[1] * a[2], a[2] * b[2])
RSub(a, b) == Rat(a[1] * b[2] - b[1] * a[2], a[2] * b[2])
RMul(a, b) ==
    LET x == Rat(a[1], b[2])
        y == Rat(b[1], a[2])
    IN  Rat(x[1] * y[1], x[2] * y[2])
RDiv(a, b) == RMul(a, IF b[1] < 0 THEN <<-b[2], -b[1]>> ELSE <<b[2], b[1]>>)
RLt(a, b) == a[1] * b[2] < b[1] * a[2]
RLe(a, b) == a[1] * b[2] <= b[1] * a[2]
RGt(a, b) == RLt(b, a)
RGe(a, b) == RLe(b, a)
RMax(a, b) == IF RLt(a, b) THEN b ELSE a

RECURSIVE RSum(_)
RSum(s) == IF s = <<>> THEN R(0) ELSE RAdd(s[1], RSum(Tail(s)))

RECURSIVE ISum(_)
ISum(s) == IF s = <<>> THEN 0 ELSE s[1] + ISum(Tail(s))

\* floor(x) of a rational, and Python's round(x, 1) / round(x, 2) (ties to even)
RFloor(a) == a[1] \div a[2]
RoundHalfEven(a) ==
    LET f == RFloor(a)
        rest == RSub(a, R(f))
    IN  IF RLt(rest, <<1, 2>>) THEN f
        ELSE IF RGt(rest, <<1, 2>>) THEN f + 1
        ELSE IF f % 2 = 0 THEN f ELSE f + 1
RoundTo(a, scale) == Rat(RoundHalfEven(RMul(a, R(scale))), scale)

-----------------------------------------------------------------------------
(* Text.                                                                   *)

NaN == "NaN"

CharOrder ==
    <<" ", "0", "1", "2", "3", "4", "5", "6", "7", "8", "9",
      "A", "B", "C", "D", "E", "F", "G", "H", "I", "J", "K", "L", "M",
      "N", "O", "P", "Q", "R", "S", "T", "U", "V", "W", "X", "Y", "Z", "_",
      "a", "b", "c", "d", "e", "f", "g", "h", "i", "j", "k", "l", "m",
      "n", "o", "p", "q", "r", "s", "t", "u", "v", "w", "x", "y", "z">>

CharCode(c) == CHOOSE i \in 1..Len(CharOrder) : CharOrder[i] = c

\* str.upper(): the lower-case letters sit 27 places after their capitals
UpperChar(c) ==
    LET i == CharCode(c) IN IF i >= 39 THEN CharOrder[i - 27] ELSE c
Upper(cs) == [i \in 1..Len(cs) |-> UpperChar(cs[i])]

RECURSIVE LStrip(_)
LStrip(cs) == IF cs # <<>> /\ cs[1] = " " THEN LStrip(Tail(cs)) ELSE cs
RECURSIVE RStrip(_)
RStrip(cs) ==
    IF cs # <<>> /\ cs[Len(cs)] = " " THEN RStrip(SubSeq(cs, 1, Len(cs) - 1)) ELSE cs
Strip(cs) == RStrip(LStrip(cs))

StartsWith(cs, p) == Len(p) <= Len(cs) /\ SubSeq(cs, 1, Len(p)) = p
Contains(cs, p) ==
    \E i \in 0..(Len(cs) - Len(p)) : SubSeq(cs, i + 1, i + Len(p)) = p

\* Python's ordering of str: by code point, a proper prefix first
RECURSIVE StrLess(_, _)
StrLess(a, b) ==
    IF b = <<>> THEN FALSE
    ELSE IF a = <<>> THEN TRUE
    ELSE IF a[1] # b[1] THEN CharCode(a[1]) < CharCode(b[1])
    ELSE StrLess(Tail(a), Tail(b))

\* the characters of every text value the model uses
Chars(s) ==
    CASE s = "" -> <<>>
      [] s = "Aaa" -> <<"A", "a", "a">>
      [] s = "Aa1" -> <<"A", "a", "1">>
      [] s = "Aa2" -> <<"A", "a", "2">>
      [] s = "Aa3" -> <<"A", "a", "3">>
      [] s = "A1" -> <<"A", "1">>
      [] s = "A2" -> <<"A", "2">>
      [] s = "A3" -> <<"A", "3">>
      [] s = "Baa1" -> <<"B", "a", "a", "1">>
      [] s = "Baa2" -> <<"B", "a", "a", "2">>
      [] s = "Baa3" -> <<"B", "a", "a", "3">>
      [] s = "Ba1" -> <<"B", "a", "1">>
      [] s = "Ba2" -> <<"B", "a", "2">>
      [] s = "Ba3" -> <<"B", "a", "3">>
      [] s = "B1" -> <<"B", "1">>
      [] s = "B2" -> <<"B", "2">>
      [] s = "B3" -> <<"B", "3">>
      [] s = "Caa1" -> <<"C", "a", "a", "1">>
      [] s = "Caa2" -> <<"C", "a", "a", "2">>
      [] s = "Caa3" -> <<"C", "a", "a", "3">>
      [] s = "Ca" -> <<"C", "a">>
      [] s = "C" -> <<"C">>
      [] s = "NR" -> <<"N", "R">>
      [] s = "B" -> <<"B">>
      [] s = "Caa" -> <<"C", "a", "a">>
      [] s = "Baa" -> <<"B", "a", "a">>
      [] s = "Ba" -> <<"B", "a">>
      [] s = "A" -> <<"A">>
      [] s = "D" -> <<"D">>
      [] s = " B2 " -> <<" ", "B", "2", " ">>
      [] s = "1L" -> <<"1", "L">>
      [] s = "2L" -> <<"2", "L">>
      [] s = "Unsecured" -> <<"U", "n", "s", "e", "c", "u", "r", "e", "d">>
      [] s = "First Lien" -> <<"F", "i", "r", "s", "t", " ", "L", "i", "e", "n">>
      [] s = "Second Lien" -> <<"S", "e", "c", "o", "n", "d", " ", "L", "i", "e", "n">>
      [] s = "1st Lien" -> <<"1", "s", "t", " ", "L", "i", "e", "n">>
      [] s = "2nd Lien" -> <<"2", "n", "d", " ", "L", "i", "e", "n">>
      [] s = "Senior Secured" ->
            <<"S", "e", "n", "i", "o", "r", " ", "S", "e", "c", "u", "r", "e", "d">>
      [] s = "Subordinated" ->
            <<"S", "u", "b", "o", "r", "d", "i", "n", "a", "t", "e", "d">>
      [] s = "Mezzanine" -> <<"M", "e", "z", "z", "a", "n", "i", "n", "e">>
      [] s = "Tech" -> <<"T", "e", "c", "h">>
      [] s = "Energy" -> <<"E", "n", "e", "r", "g", "y">>
      [] s = "Retail" -> <<"R", "e", "t", "a", "i", "l">>
      [] s = "Acme" -> <<"A", "c", "m", "e">>
      [] s = "Beta" -> <<"B", "e", "t", "a">>
      [] s = "Gamma" -> <<"G", "a", "m", "m", "a">>
      [] s = "WH_A" -> <<"W", "H", "_", "A">>
      [] s = "WH_B" -> <<"W", "H", "_", "B">>
      [] s = "L1" -> <<"L", "1">>
      [] s = "L2" -> <<"L", "2">>
      [] s = "L3" -> <<"L", "3">>
      [] s = "L4" -> <<"L", "4">>
      [] s = "IG" -> <<"I", "G">>
      [] s = "BB" -> <<"B", "B">>
      [] s = "CCC" -> <<"C", "C", "C">>
      [] s = "Ca2" -> <<"C", "a", "2">>
      [] s = "C1" -> <<"C", "1">>
      [] s = "Baa4" -> <<"B", "a", "a", "4">>
      [] s = "B4" -> <<"B", "4">>
      [] s = "Aa" -> <<"A", "a">>
      [] s = "A4" -> <<"A", "4">>
      [] s = "WR" -> <<"W", "R">>
      [] s = "  " -> <<" ", " ">>
      [] s = "BCaa1" -> <<"B", "C", "a", "a", "1">>
      [] s = "N01" -> <<"N", "0", "1">>
      [] s = "N02" -> <<"N", "0", "2">>
      [] s = "N03" -> <<"N", "0", "3">>
      [] s = "N04" -> <<"N", "0", "4">>
      [] s = "N05" -> <<"N", "0", "5">>
      [] s = "N06" -> <<"N", "0", "6">>
      [] s = "N07" -> <<"N", "0", "7">>
      [] s = "N08" -> <<"N", "0", "8">>
      [] s = "N09" -> <<"N", "0", "9">>
      [] s = "N10" -> <<"N", "1", "0">>
      [] s = "N11" -> <<"N", "1", "1">>
      [] s = "N12" -> <<"N", "1", "2">>
      [] s = "N13" -> <<"N", "1", "3">>
      [] s = "US" -> <<"U", "S">>
      [] s = "DE" -> <<"D", "E">>
      [] s = "SOFR" -> <<"S", "O", "F", "R">>
      [] s = "L7" -> <<"L", "7">>
      [] s = "Warehouse_Alpha" ->
             <<"W", "a", "r", "e", "h", "o", "u", "s", "e", "_", "A", "l", "p", "h", "a">>
      [] s = "Warehouse_Beta" ->
             <<"W", "a", "r", "e", "h", "o", "u", "s", "e", "_", "B", "e", "t", "a">>
      [] s = "_Tape" -> <<"_", "T", "a", "p", "e">>
      [] s = "Revolver" -> <<"R", "e", "v", "o", "l", "v", "e", "r">>
      [] s = "L5" -> <<"L", "5">>
      [] s = "L6" -> <<"L", "6">>

\* sorted(keys): the keys of a groupby come out in ascending order
RECURSIVE SortKeys(_)
SortKeys(S) ==
    IF S = {} THEN <<>>
    ELSE LET m == CHOOSE x \in S : \A y \in S \ {x} : StrLess(Chars(x), Chars(y))
         IN  <<m>> \o SortKeys(S \ {m})

-----------------------------------------------------------------------------
(* DataFrame helpers.                                                      *)

HasCol(d, c) == c \in d.cols
Empty(d) == Len(d.rows) = 0
RowIdx(d) == 1..Len(d.rows)

\* Series.sum() of par_amount
SumPar(rows) == ISum([i \in 1..Len(rows) |-> rows[i].par_amount])

\* (par_amount * market_price).sum(): a NaN product is skipped by sum()
SumParPrice(rows) ==
    ISum([i \in 1..Len(rows) |->
            IF rows[i].market_price = <<>> THEN 0
            ELSE rows[i].par_amount * rows[i].market_price[1]])

\* groupby(col): the non-missing values of a text column
Keys(rows, col) == {rows[i][col] : i \in 1..Len(rows)} \ {NaN}

-----------------------------------------------------------------------------
(* Rating taxonomy (src/src/stress.py).                                    *)

RatingScale ==
    <<"Aaa", "Aa1", "Aa2", "Aa3", "A1", "A2", "A3", "Baa1", "Baa2", "Baa3",
      "Ba1", "Ba2", "Ba3", "B1", "B2", "B3", "Caa1", "Caa2", "Caa3", "Ca", "C">>

\* the keys of RATING_ORDER as characters
RatingScaleChars == [i \in 1..Len(RatingScale) |-> Chars(RatingScale[i])]

\* `key in RATING_ORDER` and RATING_ORDER[key], keyed by the characters
OnScale(cs) == \E i \in 1..Len(RatingScale) : RatingScaleChars[i] = cs
RATING_ORDER(cs) == CHOOSE i \in 1..Len(RatingScale) : RatingScaleChars[i] = cs
ORDER_TO_RATING(order) == RatingScale[order]

rating_to_tier_chars(cs) ==
    LET rating == Strip(cs) IN
    IF ~OnScale(rating) THEN
        IF Contains(rating, Chars("Caa")) \/ rating \in {Chars("Ca"), Chars("C")}
            THEN "CCC"
        ELSE IF StartsWith(rating, Chars("B")) /\ ~StartsWith(rating, Chars("Ba"))
            THEN "B"
        ELSE IF StartsWith(rating, Chars("Ba")) THEN "BB"
        ELSE IF \/ StartsWith(rating, Chars("Baa"))
                \/ StartsWith(rating, Chars("A"))
                \/ StartsWith(rating, Chars("Aa"))
                \/ rating = Chars("Aaa")
            THEN "IG"
        ELSE "NR"
    ELSE LET order == RATING_ORDER(rating) IN
         IF order <= 10 THEN "IG"
         ELSE IF order <= 13 THEN "BB"
         ELSE IF order <= 16 THEN "B"
         ELSE IF order <= 21 THEN "CCC"
         ELSE "NR"

rating_to_tier(rating) ==
    IF rating = "" \/ rating = NaN THEN "NR" ELSE rating_to_tier_chars(Chars(rating))

\* a variant whose floor is one rank early: Ca comes back as Ca
downgrade_one_notch_StopAtCa(rating) ==
    IF rating = NaN \/ ~OnScale(Chars(rating)) THEN rating
    ELSE IF RATING_ORDER(Chars(rating)) >= 20 THEN rating
    ELSE ORDER_TO_RATING(RATING_ORDER(Chars(rating)) + 1)

\* a variant that sends an unknown rating to the bottom of the scale
downgrade_one_notch_UnknownToC(rating) ==
    IF rating = NaN \/ ~OnScale(Chars(rating)) THEN "C"
    ELSE IF RATING_ORDER(Chars(rating)) >= 21 THEN rating
    ELSE ORDER_TO_RATING(RATING_ORDER(Chars(rating)) + 1)

\* the rating one notch down; an unknown rating (NaN included) comes back as is
downgrade_one_notch(rating) ==
    IF rating = NaN \/ ~OnScale(Chars(rating)) THEN rating
    ELSE IF RATING_ORDER(Chars(rating)) >= 21 THEN rating
    ELSE ORDER_TO_RATING(RATING_ORDER(Chars(rating)) + 1)

\* a variant that gives an unrecognised label the unsecured recovery
get_recovery_rate_UnknownUnsecured(lien_type, scfg) ==
    IF lien_type = "" \/ lien_type = NaN THEN scfg.recovery_1l
    ELSE LET lien == Upper(Strip(Chars(lien_type))) IN
         IF Contains(lien, <<"1">>) THEN scfg.recovery_1l
         ELSE IF Contains(lien, <<"2">>) THEN scfg.recovery_2l
         ELSE scfg.recovery_unsecured

\* the recovery rate of a lien label; no label, or one that names no lien,
\* takes the first-lien rate
get_recovery_rate(lien_type, scfg) ==
    IF lien_type = "" \/ lien_type = NaN THEN scfg.recovery_1l
    ELSE LET lien == Upper(Strip(Chars(lien_type))) IN
         IF Contains(lien, <<"1">>) THEN scfg.recovery_1l
         ELSE IF Contains(lien, <<"2">>) THEN scfg.recovery_2l
         ELSE IF Contains(lien, <<"U", "N">>) THEN scfg.recovery_unsecured
         ELSE scfg.recovery_1l

-----------------------------------------------------------------------------
(* Configuration objects (src/src/models.py, src/src/config.py).           *)

AlertSeverity == {"CRITICAL", "WARNING", "INFO"}

\* AlertConfig(): the defaults of the class
AlertConfig ==
    [proximity_margin    |-> <<1, 10>>,
     stale_warning_days  |-> 7,
     stale_critical_days |-> 14,
     warf_warning        |-> R(3000),
     warf_critical       |-> R(3500),
     diversity_warning   |-> R(40),
     utilization_warning |-> <<9, 10>>,
     disabled_rules      |-> {}]

\* StressConfig(): the defaults of the class
StressConfig ==
    [price_shock_ig |-> R(1), price_shock_bb |-> R(3),
     price_shock_b |-> R(5), price_shock_ccc |-> R(15),
     cdr_ig |-> <<1, 200>>, cdr_bb |-> <<1, 50>>,
     cdr_b |-> <<1, 20>>, cdr_ccc |-> <<3, 20>>,
     recovery_1l |-> <<13, 20>>, recovery_2l |-> <<7, 20>>,
     recovery_unsecured |-> <<3, 20>>,
     spread_shock_ig |-> R(50), spread_shock_bb |-> R(100),
     spread_shock_b |-> R(200), spread_shock_ccc |-> R(500),
     migration_rate |-> <<1, 10>>,
     concentration_top_n |-> 3]

\* WarehouseConfig(): the defaults of the class (the facility is $100M)
WarehouseConfig ==
    [max_facility_amount          |-> R(100000),
     advance_rate                 |-> <<4, 5>>,
     oc_trigger_pct               |-> <<5, 4>>,
     concentration_limit_industry |-> <<3, 20>>,
     max_single_name_pct          |-> <<1, 50>>,
     max_second_lien_pct          |-> <<1, 10>>,
     max_unsecured_pct            |-> <<1, 20>>,
     max_ccc_pct                  |-> <<3, 40>>,
     alert_config                 |-> AlertConfig]

-----------------------------------------------------------------------------
(* Portfolio metrics (src/src/risk_analytics.py).                          *)

MOODY_RATING_FACTORS ==
    <<1, 10, 20, 40, 70, 120, 180, 260, 360, 610, 940, 1350, 1766,
      2220, 2720, 3490, 4770, 6500, 8070, 10000, 10000>>

\* MOODY_RATING_FACTORS.get(rating, 3490) of one row
RatingFactor(row) ==
    LET rating == IF row.rating_moodys = NaN THEN <<>>
                  ELSE Strip(Chars(row.rating_moodys))
    IN  IF OnScale(rating) THEN MOODY_RATING_FACTORS[RATING_ORDER(rating)] ELSE 3490

compute_warf(d) ==
    IF Empty(d) \/ ~HasCol(d, "rating_moodys") THEN R(0)
    ELSE LET total_par == SumPar(d.rows) IN
         IF total_par <= 0 THEN R(0)
         ELSE Rat(ISum([i \in RowIdx(d) |->
                          d.rows[i].par_amount * RatingFactor(d.rows[i])]),
                  total_par)

_DIVERSITY_TABLE ==
    <<R(1), <<3, 2>>, R(2), <<233, 100>>, <<267, 100>>,
      R(3), <<13, 4>>, <<7, 2>>, <<15, 4>>, R(4)>>

DiversityUnits(n_issuers) ==
    IF n_issuers <= 10 THEN _DIVERSITY_TABLE[n_issuers]
    ELSE RAdd(R(4), RMul(R(n_issuers - 10), <<1, 5>>))

compute_diversity_score(d) ==
    IF Empty(d) \/ ~HasCol(d, "industry_gics") \/ ~HasCol(d, "issuer_name") THEN R(0)
    ELSE LET inds == SortKeys(Keys(d.rows, "industry_gics"))
             n_issuers(ind) ==
                 Cardinality({d.rows[i].issuer_name :
                                i \in {j \in RowIdx(d) : d.rows[j].industry_gics = ind}}
                             \ {NaN})
             units == [k \in 1..Len(inds) |->
                         IF n_issuers(inds[k]) <= 0 THEN R(0)
                         ELSE DiversityUnits(n_issuers(inds[k]))]
         IN  RoundTo(RSum(units), 10)

\* groupby(col)[par_amount].sum() of one key
GroupPar(rows, col, key) ==
    ISum([i \in 1..Len(rows) |-> IF rows[i][col] = key THEN rows[i].par_amount ELSE 0])

\* the first key of groupby(col).sum().sort_values(ascending=False): the
\* largest sum; among equal sums the smallest key
TopKey(rows, col) ==
    LET K == Keys(rows, col) IN
    CHOOSE k \in K : \A o \in K \ {k} :
        \/ GroupPar(rows, col, k) > GroupPar(rows, col, o)
        \/ /\ GroupPar(rows, col, k) = GroupPar(rows, col, o)
           /\ StrLess(Chars(k), Chars(o))

compute_single_name_concentration(d) ==
    LET none == [max_single_issuer_pct |-> R(0), max_single_issuer_name |-> ""] IN
    IF Empty(d) \/ ~HasCol(d, "issuer_name") THEN none
    ELSE LET total_par == SumPar(d.rows)
             K == Keys(d.rows, "issuer_name")
         IN  IF total_par <= 0 \/ K = {} THEN none
             ELSE LET top == TopKey(d.rows, "issuer_name") IN
                  [max_single_issuer_pct |->
                        Rat(GroupPar(d.rows, "issuer_name", top), total_par),
                   max_single_issuer_name |-> top]

\* the bucket of one lien label: str(lien_type).strip().upper() against the aliases
LienBucket(lien_type) ==
    LET lt == Upper(Strip(Chars(lien_type))) IN
    IF lt \in {Upper(Chars("1L")), Upper(Chars("First Lien")),
               Upper(Chars("1st Lien")), Upper(Chars("Senior Secured"))} THEN "1L_pct"
    ELSE IF lt \in {Upper(Chars("2L")), Upper(Chars("Second Lien")),
                    Upper(Chars("2nd Lien"))} THEN "2L_pct"
    ELSE IF lt \in {Upper(Chars("Unsecured")), Upper(Chars("Subordinated")),
                    Upper(Chars("Mezzanine"))} THEN "unsecured_pct"
    ELSE "other_pct"

compute_lien_breakdown(d) ==
    LET zero == [k \in {"1L_pct", "2L_pct", "unsecured_pct", "other_pct"} |-> R(0)] IN
    IF Empty(d) \/ ~HasCol(d, "lien_type") THEN zero
    ELSE LET total_par == SumPar(d.rows)
             liens == SortKeys(Keys(d.rows, "lien_type"))
             pct(k) == Rat(GroupPar(d.rows, "lien_type", liens[k]), total_par)
         IN  IF total_par <= 0 THEN zero
             ELSE [b \in DOMAIN zero |->
                     RSum([k \in 1..Len(liens) |->
                            IF LienBucket(liens[k]) = b THEN pct(k) ELSE R(0)])]

-----------------------------------------------------------------------------
(* Alert engine (src/src/alerts.py).                                       *)

\* hashlib.md5(f"{warehouse}:{rule_id}").hexdigest()[:12]: the digest is a
\* function of the formatted text alone; it is kept as the pair of the two
\* formatted parts (distinct texts are taken to have distinct digests)
_alert_id(warehouse, rule_id) == <<warehouse, rule_id>>

\* a variant that lets every rule run, whatever disabled_rules holds
_is_enabled_Ignored(rule_id, alert_config) == TRUE

_is_enabled(rule_id, alert_config) == rule_id \notin alert_config.disabled_rules

\* Alert(...): `rule` is the key that _is_enabled was asked about; `title` and
\* the rule id inside alert_id are the pieces of their f-strings (a count
\* {n} in a title is the alert's current_value); the detail text and the
\* timestamp are left out
Alert(alert_id, warehouse, severity, category, title, metric_name, current_value, threshold_value, rule) ==
    [alert_id |-> alert_id, warehouse |-> warehouse, severity |-> severity,
     category |-> category, title |-> title, metric_name |-> metric_name,
     current_value |-> current_value, threshold_value |-> threshold_value,
     rule |-> rule]

\* funded * (w_price / 100) * advance_rate
EstimatedDebt(d, cfg) ==
    LET funded == SumPar(d.rows)
        w_price == Rat(SumParPrice(d.rows), funded)
    IN  RMul(RMul(R(funded), RDiv(w_price, R(100))), cfg.advance_rate)

\* a variant whose proximity test is oc_ratio <= trigger * (1 + margin)
_check_oc_breach_Inclusive(d, warehouse, cfg, debt, cash) ==
    LET ac == cfg.alert_config
        funded == SumPar(d.rows)
    IN
    IF funded <= 0 THEN <<>>
    ELSE IF debt = <<>> /\ ~HasCol(d, "market_price") THEN <<>>
    ELSE LET debt_used == IF debt = <<>> THEN EstimatedDebt(d, cfg) ELSE debt[1] IN
         IF RLe(debt_used, R(0)) THEN <<>>
         ELSE LET oc_ratio == RDiv(RAdd(R(funded), cash), debt_used)
                  trigger == cfg.oc_trigger_pct
              IN
              IF _is_enabled("oc_breach", ac) /\ RLt(oc_ratio, trigger) THEN
                  <<Alert(_alert_id(warehouse, <<"oc_breach">>), warehouse, "CRITICAL",
                          "Compliance", <<"OC Ratio Breach">>, "oc_ratio",
                          oc_ratio, trigger, "oc_breach")>>
              ELSE IF /\ _is_enabled("oc_proximity", ac)
                      /\ RLe(oc_ratio, RMul(trigger, RAdd(R(1), ac.proximity_margin)))
              THEN
                  <<Alert(_alert_id(warehouse, <<"oc_proximity">>), warehouse, "WARNING",
                          "Threshold Proximity", <<"OC Ratio Near Trigger">>, "oc_ratio",
                          oc_ratio, trigger, "oc_proximity")>>
              ELSE <<>>

_check_oc_breach(d, warehouse, cfg, debt, cash) ==
    LET ac == cfg.alert_config
        funded == SumPar(d.rows)
    IN
    IF funded <= 0 THEN <<>>
    ELSE IF debt = <<>> /\ ~HasCol(d, "market_price") THEN <<>>
    ELSE LET debt_used == IF debt = <<>> THEN EstimatedDebt(d, cfg) ELSE debt[1] IN
         IF RLe(debt_used, R(0)) THEN <<>>
         ELSE LET oc_ratio == RDiv(RAdd(R(funded), cash), debt_used)
                  trigger == cfg.oc_trigger_pct
              IN
              IF _is_enabled("oc_breach", ac) /\ RLt(oc_ratio, trigger) THEN
                  <<Alert(_alert_id(warehouse, <<"oc_breach">>), warehouse, "CRITICAL",
                          "Compliance", <<"OC Ratio Breach">>, "oc_ratio",
                          oc_ratio, trigger, "oc_breach")>>
              ELSE IF /\ _is_enabled("oc_proximity", ac)
                      /\ RLt(oc_ratio, RMul(trigger, RAdd(R(1), ac.proximity_margin)))
              THEN
                  <<Alert(_alert_id(warehouse, <<"oc_proximity">>), warehouse, "WARNING",
                          "Threshold Proximity", <<"OC Ratio Near Trigger">>, "oc_ratio",
                          oc_ratio, trigger, "oc_proximity")>>
              ELSE <<>>

\* rating_moodys.str.contains("Caa|Ca|^C$", na=False, regex=True) of one cell
CccPattern(rating) ==
    /\ rating # NaN
    /\ \/ Contains(Chars(rating), Chars("Caa"))
       \/ Contains(Chars(rating), Chars("Ca"))
       \/ Chars(rating) = Chars("C")

_check_ccc(d, warehouse, cfg) ==
    LET ac == cfg.alert_config
        funded == SumPar(d.rows)
    IN
    IF funded <= 0 \/ ~HasCol(d, "rating_moodys") THEN <<>>
    ELSE LET ccc_par == SumPar(SelectSeq(d.rows, LAMBDA r : CccPattern(r.rating_moodys)))
             ccc_pct == Rat(ccc_par, funded)
             limit == cfg.max_ccc_pct
         IN
         IF _is_enabled("ccc_breach", ac) /\ RGt(ccc_pct, limit) THEN
             <<Alert(_alert_id(warehouse, <<"ccc_breach">>), warehouse, "CRITICAL",
                     "Compliance", <<"CCC Bucket Breach">>, "ccc_pct",
                     ccc_pct, limit, "ccc_breach")>>
         ELSE IF /\ _is_enabled("ccc_proximity", ac)
                 /\ RGt(ccc_pct, RMul(limit, RSub(R(1), ac.proximity_margin)))
         THEN
             <<Alert(_alert_id(warehouse, <<"ccc_proximity">>), warehouse, "WARNING",
                     "Threshold Proximity", <<"CCC % Near Limit">>, "ccc_pct",
                     ccc_pct, limit, "ccc_proximity")>>
         ELSE <<>>

\* a variant of the loop body whose alert ids leave the industry out
IndustryAlerts_SharedId(industry, pct, warehouse, cfg) ==
    LET ac == cfg.alert_config
        limit == cfg.concentration_limit_industry
    IN
    IF _is_enabled("industry_breach", ac) /\ RGt(pct, limit) THEN
        <<Alert(_alert_id(warehouse, <<"industry_breach_">>), warehouse,
                "CRITICAL", "Concentration", <<"Industry Limit Breach: ", industry>>,
                "industry_concentration", pct, limit, "industry_breach")>>
    ELSE IF /\ _is_enabled("industry_proximity", ac)
            /\ RGt(pct, RMul(limit, RSub(R(1), ac.proximity_margin)))
    THEN
        <<Alert(_alert_id(warehouse, <<"industry_prox_">>), warehouse,
                "WARNING", "Threshold Proximity", <<"Industry Near Limit: ", industry>>,
                "industry_concentration", pct, limit, "industry_proximity")>>
    ELSE <<>>

\* the body of the loop over ind_exp.items(), for one industry
IndustryAlerts(industry, pct, warehouse, cfg) ==
    LET ac == cfg.alert_config
        limit == cfg.concentration_limit_industry
    IN
    IF _is_enabled("industry_breach", ac) /\ RGt(pct, limit) THEN
        <<Alert(_alert_id(warehouse, <<"industry_breach_", industry>>), warehouse,
                "CRITICAL", "Concentration", <<"Industry Limit Breach: ", industry>>,
                "industry_concentration", pct, limit, "industry_breach")>>
    ELSE IF /\ _is_enabled("industry_proximity", ac)
            /\ RGt(pct, RMul(limit, RSub(R(1), ac.proximity_margin)))
    THEN
        <<Alert(_alert_id(warehouse, <<"industry_prox_", industry>>), warehouse,
                "WARNING", "Threshold Proximity", <<"Industry Near Limit: ", industry>>,
                "industry_concentration", pct, limit, "industry_proximity")>>
    ELSE <<>>

RECURSIVE Flatten(_)
Flatten(ss) == IF ss = <<>> THEN <<>> ELSE ss[1] \o Flatten(Tail(ss))

\* a variant that reports the largest industry only
_check_industry_concentration_Aggregate(d, warehouse, cfg) ==
    LET funded == SumPar(d.rows) IN
    IF funded <= 0 \/ ~HasCol(d, "industry_gics") THEN <<>>
    ELSE LET inds == SortKeys(Keys(d.rows, "industry_gics")) IN
         IF inds = <<>> THEN <<>>
         ELSE LET top == TopKey(d.rows, "industry_gics") IN
              IndustryAlerts(top, Rat(GroupPar(d.rows, "industry_gics", top),
                                      funded), warehouse, cfg)

_check_industry_concentration(d, warehouse, cfg) ==
    LET funded == SumPar(d.rows) IN
    IF funded <= 0 \/ ~HasCol(d, "industry_gics") THEN <<>>
    ELSE LET inds == SortKeys(Keys(d.rows, "industry_gics"))
             par(k) == GroupPar(d.rows, "industry_gics", inds[k])
         IN  Flatten([k \in 1..Len(inds) |->
                        IndustryAlerts(inds[k], Rat(par(k), funded), warehouse, cfg)])

_check_single_name(d, warehouse, cfg) ==
    LET ac == cfg.alert_config
        sn == compute_single_name_concentration(d)
        limit == cfg.max_single_name_pct
        pct == sn.max_single_issuer_pct
        name == sn.max_single_issuer_name
    IN
    IF _is_enabled("single_name_breach", ac) /\ RGt(pct, limit) THEN
        <<Alert(_alert_id(warehouse, <<"single_name_breach">>), warehouse, "CRITICAL",
                "Concentration", <<"Single-Name Breach: ", name>>, "single_name_pct",
                pct, limit, "single_name_breach")>>
    ELSE IF /\ _is_enabled("single_name_proximity", ac)
            /\ RGt(pct, RMul(limit, RSub(R(1), ac.proximity_margin)))
    THEN
        <<Alert(_alert_id(warehouse, <<"single_name_proximity">>), warehouse, "WARNING",
                "Threshold Proximity", <<"Single-Name Near Limit: ", name>>,
                "single_name_pct", pct, limit, "single_name_proximity")>>
    ELSE <<>>

_check_lien_sublimits(d, warehouse, cfg) ==
    LET ac == cfg.alert_config
        lien == compute_lien_breakdown(d)
    IN
    (IF /\ _is_enabled("second_lien_breach", ac)
        /\ RGt(lien["2L_pct"], cfg.max_second_lien_pct)
     THEN <<Alert(_alert_id(warehouse, <<"second_lien_breach">>), warehouse, "CRITICAL",
                  "Compliance", <<"Second Lien Sublimit Breach">>, "second_lien_pct",
                  lien["2L_pct"], cfg.max_second_lien_pct, "second_lien_breach")>>
     ELSE <<>>)
    \o
    (IF /\ _is_enabled("unsecured_breach", ac)
        /\ RGt(lien["unsecured_pct"], cfg.max_unsecured_pct)
     THEN <<Alert(_alert_id(warehouse, <<"unsecured_breach">>), warehouse, "CRITICAL",
                  "Compliance", <<"Unsecured Sublimit Breach">>, "unsecured_pct",
                  lien["unsecured_pct"], cfg.max_unsecured_pct, "unsecured_breach")>>
     ELSE <<>>)

\* max of a non-empty set of day numbers
MaxOf(S) == CHOOSE m \in S : \A x \in S : x <= m

\* clock is the day of datetime.now()
_check_data_freshness(d, warehouse, cfg, clock) ==
    LET ac == cfg.alert_config IN
    IF ~HasCol(d, "data_date") \/ Empty(d) THEN <<>>
    ELSE LET latest == MaxOf({d.rows[i].data_date : i \in RowIdx(d)})
             days_old == clock - latest
         IN
         IF _is_enabled("data_stale", ac) /\ days_old >= ac.stale_critical_days THEN
             <<Alert(_alert_id(warehouse, <<"data_stale_critical">>), warehouse, "CRITICAL",
                     "Data Quality", <<"Data Critically Stale">>, "data_freshness_days",
                     R(days_old), R(ac.stale_critical_days), "data_stale")>>
         ELSE IF _is_enabled("data_stale", ac) /\ days_old >= ac.stale_warning_days THEN
             <<Alert(_alert_id(warehouse, <<"data_stale_warning">>), warehouse, "WARNING",
                     "Data Quality", <<"Data Getting Stale">>, "data_freshness_days",
                     R(days_old), R(ac.stale_warning_days), "data_stale")>>
         ELSE <<>>

_check_warf(d, warehouse, cfg) ==
    LET ac == cfg.alert_config
        warf == compute_warf(d)
    IN
    IF _is_enabled("warf_high", ac) /\ RGe(warf, ac.warf_critical) THEN
        <<Alert(_alert_id(warehouse, <<"warf_critical">>), warehouse, "CRITICAL",
                "Risk", <<"WARF Critical">>, "warf", warf, ac.warf_critical, "warf_high")>>
    ELSE IF _is_enabled("warf_high", ac) /\ RGe(warf, ac.warf_warning) THEN
        <<Alert(_alert_id(warehouse, <<"warf_warning">>), warehouse, "WARNING",
                "Risk", <<"WARF Elevated">>, "warf", warf, ac.warf_warning, "warf_high")>>
    ELSE <<>>

_check_diversity(d, warehouse, cfg) ==
    LET ac == cfg.alert_config
        score == compute_diversity_score(d)
    IN
    IF /\ _is_enabled("diversity_low", ac)
       /\ RLt(score, ac.diversity_warning) /\ RGt(score, R(0))
    THEN <<Alert(_alert_id(warehouse, <<"diversity_low">>), warehouse, "WARNING",
                 "Risk", <<"Low Diversity Score">>, "diversity_score",
                 score, ac.diversity_warning, "diversity_low")>>
    ELSE <<>>

_check_defaulted_assets(d, warehouse, cfg) ==
    LET ac == cfg.alert_config IN
    IF ~HasCol(d, "is_defaulted") THEN <<>>
    ELSE LET defaulted == SelectSeq(d.rows, LAMBDA r : r.is_defaulted = TRUE) IN
         IF _is_enabled("defaulted_assets", ac) /\ Len(defaulted) > 0 THEN
             <<Alert(_alert_id(warehouse, <<"defaulted_assets">>), warehouse, "WARNING",
                     "Risk", <<"{n} Defaulted Asset(s)">>, "defaulted_count",
                     R(Len(defaulted)), R(0), "defaulted_assets")>>
         ELSE <<>>

_check_price_outliers(d, warehouse, cfg) ==
    LET ac == cfg.alert_config IN
    IF ~HasCol(d, "market_price") THEN <<>>
    ELSE LET distressed ==
                 SelectSeq(d.rows, LAMBDA r :
                     r.market_price # <<>> /\ RLt(R(r.market_price[1]), R(70)))
         IN
         IF _is_enabled("price_outlier", ac) /\ Len(distressed) > 0 THEN
             <<Alert(_alert_id(warehouse, <<"price_outlier">>), warehouse, "INFO",
                     "Data Quality", <<"{n} Distressed Price Asset(s)">>,
                     "price_outlier_count", R(Len(distressed)), R(70), "price_outlier")>>
         ELSE <<>>

_check_utilization(d, warehouse, cfg, debt) ==
    LET ac == cfg.alert_config
        funded == SumPar(d.rows)
    IN
    IF debt = <<>> /\ ~(HasCol(d, "market_price") /\ funded > 0) THEN <<>>
    ELSE IF RLe(cfg.max_facility_amount, R(0)) THEN <<>>
    ELSE LET debt_used == IF debt = <<>> THEN EstimatedDebt(d, cfg) ELSE debt[1]
             utilization == RDiv(debt_used, cfg.max_facility_amount)
         IN
         IF /\ _is_enabled("facility_utilization_high", ac)
            /\ RGt(utilization, ac.utilization_warning)
         THEN <<Alert(_alert_id(warehouse, <<"utilization_high">>), warehouse, "WARNING",
                      "Compliance", <<"High Facility Utilization">>,
                      "facility_utilization", utilization, ac.utilization_warning,
                      "facility_utilization_high")>>
         ELSE <<>>

\* severity_order.get(a.severity, 3)
severity_order(severity) ==
    CASE severity = "CRITICAL" -> 0
      [] severity = "WARNING" -> 1
      [] severity = "INFO" -> 2
      [] OTHER -> 3

\* list.sort(key=...): a stable sort; each element goes in behind the
\* elements of the sorted prefix whose key is not larger
\* a variant that is not stable: an element goes in before the elements of
\* the sorted prefix that have its key
RECURSIVE InsertByKey_Unstable(_, _)
InsertByKey_Unstable(sorted, a) ==
    IF sorted = <<>> THEN <<a>>
    ELSE IF severity_order(sorted[Len(sorted)].severity) < severity_order(a.severity)
        THEN Append(sorted, a)
    ELSE Append(InsertByKey_Unstable(SubSeq(sorted, 1, Len(sorted) - 1), a),
                sorted[Len(sorted)])

RECURSIVE InsertByKey(_, _)
InsertByKey(sorted, a) ==
    IF sorted = <<>> THEN <<a>>
    ELSE IF severity_order(sorted[Len(sorted)].severity) <= severity_order(a.severity)
        THEN Append(sorted, a)
    ELSE Append(InsertByKey(SubSeq(sorted, 1, Len(sorted) - 1), a), sorted[Len(sorted)])

RECURSIVE SortBySeverity(_)
SortBySeverity(alerts) ==
    IF alerts = <<>> THEN <<>>
    ELSE InsertByKey(SortBySeverity(SubSeq(alerts, 1, Len(alerts) - 1)),
                     alerts[Len(alerts)])

\* the alerts in the order the rules append them, before the sort
AllRuleAlerts(d, warehouse_name, cfg, debt, cash, clock) ==
    _check_oc_breach(d, warehouse_name, cfg, debt, cash)
    \o _check_ccc(d, warehouse_name, cfg)
    \o _check_industry_concentration(d, warehouse_name, cfg)
    \o _check_single_name(d, warehouse_name, cfg)
    \o _check_lien_sublimits(d, warehouse_name, cfg)
    \o _check_data_freshness(d, warehouse_name, cfg, clock)
    \o _check_warf(d, warehouse_name, cfg)
    \o _check_diversity(d, warehouse_name, cfg)
    \o _check_defaulted_assets(d, warehouse_name, cfg)
    \o _check_price_outliers(d, warehouse_name, cfg)
    \o _check_utilization(d, warehouse_name, cfg, debt)

evaluate_all_alerts(d, warehouse_name, cfg, debt, cash, clock) ==
    SortBySeverity(AllRuleAlerts(d, warehouse_name, cfg, debt, cash, clock))

\* configs.get(wh_name, WarehouseConfig())
ConfigOf(cfgs, wh_name) ==
    IF wh_name \in DOMAIN cfgs THEN cfgs[wh_name] ELSE WarehouseConfig

\* a variant that hands every warehouse the rows of all warehouses
GroupOf_AllRows(d, wh_name) == d

\* the group of one warehouse: its rows, with the columns of the frame
GroupOf(d, wh_name) ==
    [cols |-> d.cols,
     rows |-> SelectSeq(d.rows, LAMBDA r : r.warehouse_source = wh_name)]

evaluate_global_alerts(df_all_latest, cfgs, clock) ==
    LET whs == SortKeys(Keys(df_all_latest.rows, "warehouse_source")) IN
    SortBySeverity(Flatten([k \in 1..Len(whs) |->
        evaluate_all_alerts(GroupOf(df_all_latest, whs[k]), whs[k],
                            ConfigOf(cfgs, whs[k]), <<>>, R(0), clock)]))

-----------------------------------------------------------------------------
(* Inputs of the alert engine.                                             *)

MaxAssets == 2

AllColumns ==
    {"asset_id", "issuer_name", "par_amount", "market_price", "rating_moodys",
     "original_rating_moodys", "lien_type", "industry_gics", "is_defaulted",
     "maturity_date", "data_date", "warehouse_source"}

\* the columns validation requires (src/src/validation.py), and the tape's stamps
RequiredColumns == {"asset_id", "issuer_name", "par_amount", "data_date", "warehouse_source"}

Row(id, issuer, par, price, rating, orig, lien, industry, defaulted, maturity, wh) ==
    [asset_id |-> id, issuer_name |-> issuer, par_amount |-> par,
     market_price |-> price, rating_moodys |-> rating,
     original_rating_moodys |-> orig, lien_type |-> lien,
     industry_gics |-> industry, is_defaulted |-> defaulted,
     maturity_date |-> maturity, data_date |-> 10, warehouse_source |-> wh]

\* the sequences of at most n elements of S
RECURSIVE SeqsUpTo(_, _)
SeqsUpTo(S, n) ==
    IF n = 0 THEN {<<>>}
    ELSE LET shorter == SeqsUpTo(S, n - 1) IN
         shorter \cup {Append(q, x) : q \in {t \in shorter : Len(t) = n - 1}, x \in S}

AlertRows ==
    {Row("L1", "Acme", 5000, <<100>>, "B2", "B2", "1L", "Tech", FALSE, <<740>>, "WH_A"),
     Row("L2", "Beta", 6000, <<100>>, "B3", "B1", "2L", "Energy", FALSE, <<740>>, "WH_A"),
     Row("L3", "Beta", 5000, <<60>>, "Caa1", "B3", "Unsecured", "Energy", TRUE, <<375>>, "WH_A"),
     Row("L4", "Gamma", 6000, <<>>, "Ca", NaN, "1L", "Tech", FALSE, <<>>, "WH_A"),
     Row("L5", NaN, 0, <<>>, NaN, NaN, NaN, NaN, FALSE, <<>>, "WH_A")}

AlertFrames ==
    {[cols |-> c, rows |-> r] :
        c \in {AllColumns, RequiredColumns}, r \in SeqsUpTo(AlertRows, MaxAssets)}

RuleKeys ==
    {"oc_breach", "oc_proximity", "ccc_breach", "ccc_proximity",
     "industry_breach", "industry_proximity", "single_name_breach",
     "single_name_proximity", "second_lien_breach", "unsecured_breach",
     "data_stale", "warf_high", "diversity_low", "defaulted_assets",
     "price_outlier", "facility_utilization_high"}

\* the disabled-rule sets tried: none, each rule alone, each breach rule with
\* its proximity rule, and all
DisabledChoices ==
    {{}} \cup {{k} : k \in RuleKeys}
         \cup {{"oc_breach", "oc_proximity"}, {"ccc_breach", "ccc_proximity"},
               {"industry_breach", "industry_proximity"},
               {"single_name_breach", "single_name_proximity"}, RuleKeys}

\* a warehouse with half-of-par limits, a facility of $8M and low risk thresholds
LooseConfig ==
    [WarehouseConfig EXCEPT
        !.max_facility_amount = R(8000),
        !.concentration_limit_industry = <<1, 2>>,
        !.max_single_name_pct = <<1, 2>>,
        !.max_second_lien_pct = <<1, 2>>,
        !.max_unsecured_pct = <<1, 2>>,
        !.max_ccc_pct = <<1, 2>>,
        !.alert_config = [AlertConfig EXCEPT !.diversity_warning = R(1),
                                             !.warf_warning = R(3100),
                                             !.warf_critical = R(4000)]]

AlertWarehouseConfigs ==
    {[c EXCEPT !.alert_config = [c.alert_config EXCEPT !.disabled_rules = dis]] :
        c \in {WarehouseConfig, LooseConfig}, dis \in DisabledChoices}

DebtChoices == {<<>>, <<R(0)>>, <<R(8000)>>}
ClockChoices == {10, 17, 24}

InitAlerts ==
    /\ df \in AlertFrames
    /\ config \in AlertWarehouseConfigs
    /\ stress_cfg = StressConfig
    /\ debt_outstanding \in DebtChoices
    /\ cash_balance = R(0)
    /\ now \in ClockChoices
    /\ configs = <<>>
    /\ result = <<>>
    /\ pc = "start"
    /\ rating_in = NaN
    /\ notches = 0
    /\ published = <<>>
    /\ uploads = <<>>

\* one call evaluate_all_alerts(df, "WH_A", config, debt_outstanding, cash_balance)
EvaluateAlerts ==
    /\ pc = "start"
    /\ result' = evaluate_all_alerts(df, "WH_A", config, debt_outstanding,
                                     cash_balance, now)
    /\ pc' = "done"
    /\ UNCHANGED <<df, config, stress_cfg, debt_outstanding, cash_balance, now, configs,
                   rating_in, notches, published, uploads>>

NextAlerts == EvaluateAlerts

SpecAlerts == InitAlerts /\ [][NextAlerts]_vars

-----------------------------------------------------------------------------
(* Claims about one evaluate_all_alerts call, checked under SpecAlerts.    *)

Done == pc = "done"
Disabled == config.alert_config.disabled_rules
Margin == config.alert_config.proximity_margin
Funded == SumPar(df.rows)

\* the alerts of the result about one metric, and their number per severity
AlertsOn(metric) == SelectSeq(result, LAMBDA a : a.metric_name = metric)
CountOn(metric, severity) ==
    Len(SelectSeq(result, LAMBDA a : a.metric_name = metric /\ a.severity = severity))

\* the OC ratio (funded + cash) / debt of the call, when it has one
OcKnown ==
    /\ Funded > 0
    /\ debt_outstanding # <<>> \/ HasCol(df, "market_price")
    /\ RGt(IF debt_outstanding = <<>> THEN EstimatedDebt(df, config)
           ELSE debt_outstanding[1], R(0))
OcRatio ==
    RDiv(RAdd(R(Funded), cash_balance),
         IF debt_outstanding = <<>> THEN EstimatedDebt(df, config)
         ELSE debt_outstanding[1])

\* the shares of total par the alert rules measure
CccKnown == Funded > 0 /\ HasCol(df, "rating_moodys")
CccShare ==
    Rat(SumPar(SelectSeq(df.rows, LAMBDA r : CccPattern(r.rating_moodys))), Funded)
IndustryKnown == Funded > 0 /\ HasCol(df, "industry_gics")
Industries == Keys(df.rows, "industry_gics")
IndustryShare(ind) == Rat(GroupPar(df.rows, "industry_gics", ind), Funded)
Issuers == Keys(df.rows, "issuer_name")
SingleNameKnown == Funded > 0 /\ HasCol(df, "issuer_name") /\ Issuers # {}
SingleNameShare ==
    LET top == CHOOSE k \in Issuers : \A o \in Issuers :
                   GroupPar(df.rows, "issuer_name", o)
                       <= GroupPar(df.rows, "issuer_name", k)
    IN  Rat(GroupPar(df.rows, "issuer_name", top), Funded)

\* the alerts about one industry
IndustryCount(ind, severity) ==
    Len(SelectSeq(result, LAMBDA a :
            /\ a.metric_name = "industry_concentration"
            /\ a.title[2] = ind
            /\ a.severity = severity))

\* C3: breach takes precedence over proximity, for OC, CCC%, single-name share
\* and each industry's share and for any disabled-rule set: one evaluation
\* never holds a breach alert and a proximity alert of the same metric, and a
\* metric past its limit (OC < trigger, share > limit) gets no proximity WARNING.
C3_BreachBeforeProximity ==
    Done =>
        /\ \A m \in {"oc_ratio", "ccc_pct", "single_name_pct"} :
              ~(CountOn(m, "CRITICAL") > 0 /\ CountOn(m, "WARNING") > 0)
        /\ \A ind \in Industries :
              ~(IndustryCount(ind, "CRITICAL") > 0 /\ IndustryCount(ind, "WARNING") > 0)
        /\ (OcKnown /\ RLt(OcRatio, config.oc_trigger_pct))
              => CountOn("oc_ratio", "WARNING") = 0
        /\ (CccKnown /\ RGt(CccShare, config.max_ccc_pct))
              => CountOn("ccc_pct", "WARNING") = 0
        /\ (SingleNameKnown /\ RGt(SingleNameShare, config.max_single_name_pct))
              => CountOn("single_name_pct", "WARNING") = 0
        /\ \A ind \in Industries :
              (IndustryKnown /\ RGt(IndustryShare(ind), config.concentration_limit_industry))
                  => IndustryCount(ind, "WARNING") = 0

\* C4: with oc_trigger_pct = 1.25, proximity_margin = 0.10 and the two OC rules
\* enabled, an OC ratio of exactly 1.375 (or more) gives no OC alert, an OC
\* ratio in [1.25, 1.375) gives exactly one WARNING "OC Ratio Near Trigger",
\* and an OC ratio below 1.25 exactly one CRITICAL "OC Ratio Breach".
C4_Scenario ==
    /\ Done
    /\ config.oc_trigger_pct = <<5, 4>>
    /\ Margin = <<1, 10>>
    /\ {"oc_breach", "oc_proximity"} \cap Disabled = {}
    /\ OcKnown

C4_OcProximityBoundary ==
    C4_Scenario =>
        /\ RGe(OcRatio, <<11, 8>>) => AlertsOn("oc_ratio") = <<>>
        /\ (RGe(OcRatio, <<5, 4>>) /\ RLt(OcRatio, <<11, 8>>)) =>
              /\ Len(AlertsOn("oc_ratio")) = 1
              /\ AlertsOn("oc_ratio")[1].severity = "WARNING"
              /\ AlertsOn("oc_ratio")[1].title = <<"OC Ratio Near Trigger">>
        /\ RLt(OcRatio, <<5, 4>>) =>
              /\ Len(AlertsOn("oc_ratio")) = 1
              /\ AlertsOn("oc_ratio")[1].severity = "CRITICAL"
              /\ AlertsOn("oc_ratio")[1].title = <<"OC Ratio Breach">>

\* an OC ratio of exactly 1.375 has been evaluated
C4_Witness == C4_Scenario /\ OcRatio = <<11, 8>> /\ AlertsOn("oc_ratio") = <<>>

\* the alerts of the same call with no rule disabled
AllEnabledConfig ==
    [config EXCEPT !.alert_config = [config.alert_config EXCEPT !.disabled_rules = {}]]
AllEnabledResult ==
    evaluate_all_alerts(df, "WH_A", AllEnabledConfig, debt_outstanding, cash_balance, now)

\* C5: no alert of the result comes from a rule whose identifier is in
\* disabled_rules, and a rule that is not disabled is still evaluated: every
\* alert it raises with nothing disabled is in the result.
C5_DisabledRulesSilent ==
    Done =>
        LET enabled == AllEnabledResult IN
        /\ \A i \in 1..Len(result) : result[i].rule \notin Disabled
        /\ \A j \in 1..Len(enabled) :
              enabled[j].rule \notin Disabled
                  => \E i \in 1..Len(result) : result[i] = enabled[j]

\* a disabled rule whose alert would fire was skipped, beside one that fired
C5_Witness ==
    /\ Done
    /\ result # <<>>
    /\ LET enabled == AllEnabledResult IN
       \E j \in 1..Len(enabled) : enabled[j].rule \in Disabled

\* what C6 says about one industry
OneAlertPerOffendingIndustry(ind) ==
    LET share == IndustryShare(ind)
        limit == config.concentration_limit_industry
    IN  IF RGt(share, limit)
            THEN IndustryCount(ind, "CRITICAL") = 1 /\ IndustryCount(ind, "WARNING") = 0
        ELSE IF RGt(share, RMul(limit, RSub(R(1), Margin)))
            THEN IndustryCount(ind, "CRITICAL") = 0 /\ IndustryCount(ind, "WARNING") = 1
        ELSE IndustryCount(ind, "CRITICAL") = 0 /\ IndustryCount(ind, "WARNING") = 0

\* every industry alert is about an industry of the portfolio
NoAggregateIndustryAlert ==
    \A i \in 1..Len(result) :
        result[i].metric_name = "industry_concentration"
            => IndustryKnown /\ result[i].title[2] \in Industries

\* C6 as stated: exactly one industry alert for each industry whose share
\* exceeds limit x (1 - margin), CRITICAL above the limit and WARNING
\* otherwise, none for any other industry, never one aggregate alert.
C6_AsStated ==
    Done =>
        /\ NoAggregateIndustryAlert
        /\ IndustryKnown => \A ind \in Industries : OneAlertPerOffendingIndustry(ind)

\* C6 amended: the same, when industry_breach and industry_proximity are both
\* enabled.
C6_PerIndustryAlerts ==
    (Done /\ {"industry_breach", "industry_proximity"} \cap Disabled = {}) =>
        /\ NoAggregateIndustryAlert
        /\ IndustryKnown => \A ind \in Industries : OneAlertPerOffendingIndustry(ind)

\* two industries offend at once, one in breach and one near the limit
C6_Witness ==
    /\ Done /\ {"industry_breach", "industry_proximity"} \cap Disabled = {}
    /\ \E a, b \in Industries :
          /\ a # b
          /\ IndustryCount(a, "CRITICAL") = 1
          /\ IndustryCount(b, "WARNING") = 1

\* the order in which evaluate_all_alerts runs the rules
RuleRunOrder ==
    <<"oc_ratio", "ccc_pct", "industry_concentration", "single_name_pct",
      "second_lien_pct", "unsecured_pct", "data_freshness_days", "warf",
      "diversity_score", "defaulted_count", "price_outlier_count",
      "facility_utilization">>
RunRank(a) == CHOOSE k \in 1..Len(RuleRunOrder) : RuleRunOrder[k] = a.metric_name

\* C7: the result is ordered by severity (CRITICAL, WARNING, INFO) and, within
\* one severity, in the order the rules ran.
C7_SeverityThenRuleOrder ==
    Done =>
        \A i, j \in 1..Len(result) :
            i < j =>
                /\ severity_order(result[i].severity) <= severity_order(result[j].severity)
                /\ result[i].severity = result[j].severity
                      => RunRank(result[i]) <= RunRank(result[j])

\* a later rule's CRITICAL was moved before an earlier rule's WARNING, and two
\* alerts of one severity kept their places
C7_Witness ==
    /\ Done
    /\ \E i, j, k \in 1..Len(result) :
          /\ i < j /\ j < k
          /\ result[i].severity = "CRITICAL" /\ result[j].severity = "CRITICAL"
          /\ result[k].severity = "WARNING"
          /\ RunRank(result[i]) < RunRank(result[j])
          /\ RunRank(result[k]) < RunRank(result[j])

\* the condition an alert reports: the Alert(...) of the source that built it
\* (told by the fixed head of its title) and, for the per-industry rules, the
\* industry
Condition(a) ==
    <<a.title[1],
      IF a.metric_name = "industry_concentration" THEN a.title[2] ELSE "">>

\* the alerts of other evaluations of warehouse WH_A: one-loan portfolios
\* under the loose limits, at each debt and each clock
OtherEvaluations ==
    UNION {{evaluate_all_alerts([cols |-> AllColumns, rows |-> <<r>>], "WH_A",
                                 LooseConfig, debt, R(0), clock)[i] :
               i \in 1..Len(evaluate_all_alerts([cols |-> AllColumns, rows |-> <<r>>],
                                                "WH_A", LooseConfig, debt, R(0), clock))} :
           r \in AlertRows, debt \in DebtChoices, clock \in ClockChoices}

\* C9: alert_id is content-addressed: an alert of this evaluation and an alert
\* of another evaluation that report the same condition for the same warehouse
\* have the same alert_id, whatever their metric values and clocks; and two
\* alerts of one evaluation that differ in condition (rule or industry) have
\* different alert_ids.
C9_AlertIdContentAddressed ==
    Done =>
        /\ \A i \in 1..Len(result) : \A b \in OtherEvaluations :
              (Condition(result[i]) = Condition(b) /\ result[i].warehouse = b.warehouse)
                  => result[i].alert_id = b.alert_id
        /\ \A i, j \in 1..Len(result) :
              Condition(result[i]) # Condition(result[j])
                  => result[i].alert_id # result[j].alert_id

\* two industries raised the same kind of alert, and another evaluation
\* reported one of them with another value
C9_Witness ==
    /\ Done
    /\ \E i, j \in 1..Len(result) :
          /\ result[i].metric_name = "industry_concentration"
          /\ result[j].metric_name = "industry_concentration"
          /\ result[i].title[1] = result[j].title[1]
          /\ result[i].title[2] # result[j].title[2]
          /\ \E b \in OtherEvaluations :
                /\ Condition(b) = Condition(result[i])
                /\ b.current_value # result[i].current_value

-----------------------------------------------------------------------------
(* Inputs of the cross-warehouse evaluation, and the claim about it.       *)

Warehouses == {"WH_A", "WH_B"}

\* the loans of the alert inputs, each in either warehouse
GlobalRows ==
    {[r EXCEPT !.warehouse_source = w] : r \in AlertRows, w \in Warehouses}

GlobalFrames ==
    {[cols |-> c, rows |-> r] :
        c \in {AllColumns, RequiredColumns}, r \in SeqsUpTo(GlobalRows, MaxAssets)}

\* the configs dict: empty, one warehouse configured, or both
GlobalConfigs ==
    LET quiet == [LooseConfig EXCEPT !.alert_config.disabled_rules =
                      {"ccc_breach", "data_stale"}]
    IN  {<<>>,
         [w \in {"WH_A"} |-> LooseConfig],
         [w \in {"WH_B"} |-> quiet],
         [w \in Warehouses |-> IF w = "WH_A" THEN LooseConfig ELSE quiet]}

InitGlobal ==
    /\ df \in GlobalFrames
    /\ config = WarehouseConfig
    /\ stress_cfg = StressConfig
    /\ debt_outstanding = <<>>
    /\ cash_balance = R(0)
    /\ now \in ClockChoices
    /\ configs \in GlobalConfigs
    /\ result = <<>>
    /\ pc = "start"
    /\ rating_in = NaN
    /\ notches = 0
    /\ published = <<>>
    /\ uploads = <<>>

\* one call evaluate_global_alerts(df, configs)
EvaluateGlobal ==
    /\ pc = "start"
    /\ result' = evaluate_global_alerts(df, configs, now)
    /\ pc' = "done"
    /\ UNCHANGED <<df, config, stress_cfg, debt_outstanding, cash_balance, now, configs,
                   rating_in, notches, published, uploads>>

NextGlobal == EvaluateGlobal

SpecGlobal == InitGlobal /\ [][NextGlobal]_vars

\* the warehouses of the tape, and evaluate_all_alerts applied to one
\* warehouse's own rows with its own config (the default when it has none)
TapeWarehouses == {df.rows[i].warehouse_source : i \in RowIdx(df)}
OwnAlerts(w) ==
    evaluate_all_alerts(
        [cols |-> df.cols,
         rows |-> SelectSeq(df.rows, LAMBDA r : r.warehouse_source = w)],
        w, IF w \in DOMAIN configs THEN configs[w] ELSE WarehouseConfig,
        <<>>, R(0), now)

\* C8: the result of evaluate_global_alerts holds, for each warehouse, exactly
\* the alerts of evaluate_all_alerts on that warehouse's rows with that
\* warehouse's config (the default WarehouseConfig when none is configured),
\* each as often as there, nothing else, and the whole sorted by severity.
C8_GlobalIsUnionOfWarehouses ==
    Done =>
        /\ \A i \in 1..Len(result) : result[i].warehouse \in TapeWarehouses
        /\ \A w \in TapeWarehouses :
              SelectSeq(result, LAMBDA a : a.warehouse = w) = OwnAlerts(w)
        /\ \A i, j \in 1..Len(result) :
              i < j => severity_order(result[i].severity)
                           <= severity_order(result[j].severity)

\* two warehouses, one configured and one not, both raised alerts, and the
\* sort moved a CRITICAL of the second before a WARNING of the first
C8_Witness ==
    /\ Done
    /\ DOMAIN configs = {"WH_A"}
    /\ \E i, j \in 1..Len(result) :
          /\ i < j
          /\ result[i].warehouse = "WH_B" /\ result[i].severity = "CRITICAL"
          /\ result[j].warehouse = "WH_A" /\ result[j].severity = "WARNING"

-----------------------------------------------------------------------------
(* Watchlist builder (src/src/alerts.py, build_watchlist).                 *)

\* asset.get(col): the cell, or None (kept as NaN / <<>>) without the column
GetText(d, asset, col) == IF HasCol(d, col) THEN asset[col] ELSE NaN
GetPrice(d, asset) == IF HasCol(d, "market_price") THEN asset.market_price ELSE <<>>

\* RATING_ORDER.get(str(rating), 99)
RatingOrderOr99(rating) ==
    IF OnScale(Chars(rating)) THEN RATING_ORDER(Chars(rating)) ELSE 99

\* issuer_par / total_par of the asset's issuer
IssuerPct(d, asset, total_par) ==
    Rat(GroupPar(d.rows, "issuer_name", asset.issuer_name), total_par)

\* the reasons of one asset, in the order the loop body appends them
WatchReasons(d, asset, total_par) ==
    LET rating == GetText(d, asset, "rating_moodys")
        orig == GetText(d, asset, "original_rating_moodys")
        price == GetPrice(d, asset)
    IN
    (IF HasCol(d, "is_defaulted") /\ asset.is_defaulted = TRUE
        THEN <<"Defaulted">> ELSE <<>>)
    \o (IF rating # NaN /\ rating_to_tier(rating) = "CCC"
           THEN <<"CCC-rated">> ELSE <<>>)
    \o (IF price # <<>> /\ price[1] < 80 THEN <<"Distressed price">> ELSE <<>>)
    \o (IF /\ orig # NaN /\ rating # NaN /\ orig # rating
           /\ RatingOrderOr99(rating) > RatingOrderOr99(orig)
           THEN <<"Downgraded">> ELSE <<>>)
    \o (IF /\ HasCol(d, "issuer_name") /\ asset.issuer_name # NaN
           /\ RGt(IssuerPct(d, asset, total_par), <<15, 1000>>)
           THEN <<"Concentrated">> ELSE <<>>)

\* the severity the loop body leaves after the reasons, from `severity`
RECURSIVE WatchSeverity(_, _)
WatchSeverity(reasons, severity) ==
    IF reasons = <<>> THEN severity
    ELSE LET next ==
                 CASE reasons[1] = "Defaulted" -> "CRITICAL"
                   [] reasons[1] \in {"CCC-rated", "Distressed price"} ->
                          IF severity # "CRITICAL" THEN "WARNING" ELSE severity
                   [] reasons[1] = "Downgraded" ->
                          IF severity = "INFO" THEN "WARNING" ELSE severity
                   [] OTHER -> severity
         IN  WatchSeverity(Tail(reasons), next)

\* the dict appended for one asset; Flags keeps the reasons apart, Par_M is
\* round(par_amount / 1e6, 2) with par_amount in thousands
WatchRow(d, asset, warehouse_name, total_par) ==
    LET reasons == WatchReasons(d, asset, total_par) IN
    [Warehouse |-> warehouse_name,
     Asset_ID  |-> asset.asset_id,
     Issuer    |-> IF HasCol(d, "issuer_name") THEN asset.issuer_name ELSE "",
     Par_M     |-> RoundTo(Rat(asset.par_amount, 1000), 100),
     Price     |-> IF GetPrice(d, asset) # <<>>
                       THEN <<RoundTo(R(GetPrice(d, asset)[1]), 100)>> ELSE <<>>,
     Rating    |-> IF HasCol(d, "rating_moodys") THEN asset.rating_moodys ELSE "",
     Flags     |-> reasons,
     Severity  |-> WatchSeverity(reasons, "INFO")]

\* sev_order of the watchlist sort
sev_order(severity) ==
    CASE severity = "CRITICAL" -> 0
      [] severity = "WARNING" -> 1
      [] OTHER -> 2

\* a variant that sorts by severity alone
WatchBefore_SeverityOnly(a, b) == sev_order(a.Severity) < sev_order(b.Severity)

\* sort_values(["_sev_sort", "Par ($M)"], ascending=[True, False]): a strictly
\* sorts before b
WatchBefore(a, b) ==
    \/ sev_order(a.Severity) < sev_order(b.Severity)
    \/ sev_order(a.Severity) = sev_order(b.Severity) /\ RGt(a.Par_M, b.Par_M)

\* the sort keeps the order of rows with equal keys
RECURSIVE InsertWatch(_, _)
InsertWatch(sorted, a) ==
    IF sorted = <<>> THEN <<a>>
    ELSE IF ~WatchBefore(a, sorted[Len(sorted)]) THEN Append(sorted, a)
    ELSE Append(InsertWatch(SubSeq(sorted, 1, Len(sorted) - 1), a), sorted[Len(sorted)])

RECURSIVE SortWatch(_)
SortWatch(rows) ==
    IF rows = <<>> THEN <<>>
    ELSE InsertWatch(SortWatch(SubSeq(rows, 1, Len(rows) - 1)), rows[Len(rows)])

\* an empty pd.DataFrame() is the empty sequence of rows
build_watchlist(d, warehouse_name, cfg) ==
    IF Empty(d) THEN <<>>
    ELSE LET total_par == SumPar(d.rows) IN
         IF total_par <= 0 THEN <<>>
         ELSE LET all == [i \in RowIdx(d) |->
                             WatchRow(d, d.rows[i], warehouse_name, total_par)]
              IN  SortWatch(SelectSeq(all, LAMBDA w : w.Flags # <<>>))

-----------------------------------------------------------------------------
(* Inputs of the watchlist builder, and the claims about it.               *)

\* a large clean loan, a small clean loan, a small distressed loan, a
\* defaulted CCC loan downgraded from B3, a small loan downgraded from B1
\* (its par, $54k, shows as the same 0.05 $M as the $50k loans), and a
\* defaulted loan written down to a par of zero, and a small clean B2 loan
\* whose current rating is written with blanks around it
WatchRows ==
    {Row("L1", "Acme", 6000, <<100>>, "B2", "B2", "1L", "Tech", FALSE, <<740>>, "WH_A"),
     Row("L2", "Beta", 50, <<100>>, "B2", "B2", "1L", "Tech", FALSE, <<740>>, "WH_A"),
     Row("L3", "Gamma", 50, <<75>>, "B1", NaN, "2L", "Energy", FALSE, <<740>>, "WH_A"),
     Row("L4", "Acme", 5000, <<60>>, "Caa1", "B3", "Unsecured", "Energy", TRUE, <<375>>, "WH_A"),
     Row("L5", "Beta", 54, <<>>, "B3", "B1", "1L", "Retail", FALSE, <<>>, "WH_A"),
     Row("L6", NaN, 0, <<>>, NaN, NaN, NaN, NaN, TRUE, <<>>, "WH_A"),
     Row("L7", "Beta", 50, <<100>>, " B2 ", "B2", "1L", "Tech", FALSE, <<740>>, "WH_A")}

WatchFrames ==
    {[cols |-> c, rows |-> r] :
        c \in {AllColumns, RequiredColumns,
               AllColumns \ {"market_price", "original_rating_moodys"}},
        r \in SeqsUpTo(WatchRows, MaxAssets)}

InitWatch ==
    /\ df \in WatchFrames
    /\ config \in {WarehouseConfig, LooseConfig}
    /\ stress_cfg = StressConfig
    /\ debt_outstanding = <<>>
    /\ cash_balance = R(0)
    /\ now = 10
    /\ configs = <<>>
    /\ result = <<>>
    /\ pc = "start"
    /\ rating_in = NaN
    /\ notches = 0
    /\ published = <<>>
    /\ uploads = <<>>

\* one call build_watchlist(df, "WH_A", config)
BuildWatchlist ==
    /\ pc = "start"
    /\ result' = build_watchlist(df, "WH_A", config)
    /\ pc' = "done"
    /\ UNCHANGED <<df, config, stress_cfg, debt_outstanding, cash_balance, now, configs,
                   rating_in, notches, published, uploads>>

NextWatch == BuildWatchlist

SpecWatch == InitWatch /\ [][NextWatch]_vars

\* the reasons of the watchlist, read off an input row
IsDefaulted(r) == HasCol(df, "is_defaulted") /\ r.is_defaulted = TRUE
IsCccTier(r) ==
    /\ HasCol(df, "rating_moodys") /\ r.rating_moodys # NaN
    /\ rating_to_tier(r.rating_moodys) = "CCC"
IsDistressed(r) ==
    HasCol(df, "market_price") /\ r.market_price # <<>> /\ r.market_price[1] < 80
IsDowngraded(r) ==
    /\ HasCol(df, "rating_moodys") /\ HasCol(df, "original_rating_moodys")
    /\ r.rating_moodys # NaN /\ r.original_rating_moodys # NaN
    /\ OnScale(Chars(r.rating_moodys)) /\ OnScale(Chars(r.original_rating_moodys))
    /\ RATING_ORDER(Chars(r.rating_moodys)) > RATING_ORDER(Chars(r.original_rating_moodys))
IsConcentrated(r) ==
    /\ HasCol(df, "issuer_name") /\ r.issuer_name # NaN /\ Funded > 0
    /\ RGt(Rat(GroupPar(df.rows, "issuer_name", r.issuer_name), Funded),
           <<15, 1000>>)
HasReason(r) ==
    IsDefaulted(r) \/ IsCccTier(r) \/ IsDistressed(r) \/ IsDowngraded(r)
        \/ IsConcentrated(r)
WorstReason(r) ==
    IF IsDefaulted(r) THEN "CRITICAL"
    ELSE IF IsCccTier(r) \/ IsDistressed(r) \/ IsDowngraded(r) THEN "WARNING"
    ELSE "INFO"

\* the input rows and the watchlist rows of one asset id
InputRowsOf(id) == SelectSeq(df.rows, LAMBDA r : r.asset_id = id)
ListedRowsOf(id) == SelectSeq(result, LAMBDA w : w.Asset_ID = id)
AssetIds == {df.rows[i].asset_id : i \in RowIdx(df)}

\* C10: the severity of a listed asset is the worst of its reasons (CRITICAL
\* iff defaulted, else WARNING iff CCC-tier, priced below 80 or downgraded,
\* else INFO); an asset without a reason is not listed; an asset with a
\* reason is listed once per input row.
C10_WorstReasonAndListing ==
    Done =>
        /\ \A i \in 1..Len(result) : result[i].Asset_ID \in AssetIds
        /\ \A id \in AssetIds :
              /\ Len(ListedRowsOf(id)) =
                     Len(SelectSeq(InputRowsOf(id), LAMBDA r : HasReason(r)))
              /\ \A k \in 1..Len(ListedRowsOf(id)) :
                     ListedRowsOf(id)[k].Severity = WorstReason(InputRowsOf(id)[1])

\* the par_amount of the asset a watchlist row is about
ParOf(w) == InputRowsOf(w.Asset_ID)[1].par_amount

\* C11 as stated: the watchlist is sorted by severity and, within one
\* severity, by non-increasing par_amount of the assets.
C11_AsStated ==
    Done => \A i \in 1..(Len(result) - 1) :
        /\ sev_order(result[i].Severity) <= sev_order(result[i + 1].Severity)
        /\ result[i].Severity = result[i + 1].Severity
               => ParOf(result[i]) >= ParOf(result[i + 1])

\* C11 amended: the watchlist is sorted by severity and, within one severity,
\* by non-increasing Par ($M), the par in millions rounded to two decimals;
\* rows equal in both keep the order of the input rows.
C11_SortedBySeverityThenParM ==
    Done => \A i \in 1..(Len(result) - 1) :
        /\ sev_order(result[i].Severity) <= sev_order(result[i + 1].Severity)
        /\ result[i].Severity = result[i + 1].Severity
               => /\ RGe(result[i].Par_M, result[i + 1].Par_M)
                  /\ result[i].Par_M = result[i + 1].Par_M
                        => \E j, k \in RowIdx(df) :
                              /\ j <= k
                              /\ df.rows[j].asset_id = result[i].Asset_ID
                              /\ df.rows[k].asset_id = result[i + 1].Asset_ID

\* two listed rows of one severity whose input order the sort reversed
C11_Witness ==
    /\ Done /\ Len(result) = 2 /\ Len(df.rows) = 2
    /\ result[1].Severity = result[2].Severity
    /\ RGt(result[1].Par_M, result[2].Par_M)
    /\ result[1].Asset_ID = df.rows[2].asset_id
    /\ result[2].Asset_ID = df.rows[1].asset_id

\* the rank of a rating on the ordinal scale, blanks around it set aside;
\* 0 when the rating is not on the scale
ScaleRank(rating) ==
    IF rating # NaN /\ OnScale(Strip(Chars(rating)))
        THEN RATING_ORDER(Strip(Chars(rating))) ELSE 0

\* the asset carries the "Downgraded" reason in the watchlist
FlaggedDowngraded(id) ==
    \E k \in 1..Len(ListedRowsOf(id)) :
        \E f \in 1..Len(ListedRowsOf(id)[k].Flags) :
            ListedRowsOf(id)[k].Flags[f] = "Downgraded"

\* C27: build_watchlist gives an asset the "Downgraded" reason exactly when
\* both ratings are present and the current rating ranks strictly worse than
\* the original one on the ordinal scale; the comparison is by rank, so two
\* ratings of equal rank (the same rating written differently included) are
\* never a downgrade and a drop in rank always is.
C27_DowngradedByRank ==
    (Done /\ HasCol(df, "original_rating_moodys")) =>
        \A i \in RowIdx(df) :
            LET a == df.rows[i]
                curr == ScaleRank(a.rating_moodys)
                orig == ScaleRank(a.original_rating_moodys)
            IN  /\ (a.rating_moodys = NaN \/ a.original_rating_moodys = NaN)
                       => ~FlaggedDowngraded(a.asset_id)
                /\ (curr > 0 /\ orig > 0)
                       => (FlaggedDowngraded(a.asset_id) <=> curr > orig)

-----------------------------------------------------------------------------
(* Stress scenarios (src/src/stress.py).                                   *)

\* Series.sum(): missing values are skipped
SumSkipNa(s) ==
    RSum([i \in 1..Len(s) |-> IF s[i] = <<>> THEN R(0) ELSE s[i][1]])

\* df_work["tier"]
Tier(asset) == rating_to_tier(asset.rating_moodys)

\* a variant that treats an unrated asset as CCC
TierMap_NrAsCcc(tier, ig, bb, b, ccc, nr, fallback) ==
    CASE tier = "IG" -> ig
      [] tier = "BB" -> bb
      [] tier = "B" -> b
      [] OTHER -> ccc

\* df_work["tier"].map(table).fillna(fallback)
TierMap(tier, ig, bb, b, ccc, nr, fallback) ==
    CASE tier = "IG" -> ig
      [] tier = "BB" -> bb
      [] tier = "B" -> b
      [] tier = "CCC" -> ccc
      [] tier = "NR" -> nr
      [] OTHER -> fallback

\* par_amount * market_price / 100, missing without a price
BaseMv(asset) ==
    IF asset.market_price = <<>> THEN <<>>
    ELSE <<Rat(asset.par_amount * asset.market_price[1], 100)>>

\* ScenarioResult(...); detail holds the values its f-string formats
ScenarioResult(name, loss_dollars, loss_pct, detail, asset_level) ==
    [name |-> name, loss_dollars |-> loss_dollars, loss_pct |-> loss_pct,
     detail |-> detail, asset_level |-> asset_level]

\* groupby("tier")["loss"].sum().idxmax(): the first tier, in key order, whose
\* summed loss is the largest
WorstTier(levels) ==
    LET tiers == SortKeys({levels[i].tier : i \in 1..Len(levels)})
        sum(k) == SumSkipNa([i \in 1..Len(levels) |->
                      IF levels[i].tier = tiers[k] THEN levels[i].loss ELSE <<>>])
        best == CHOOSE k \in 1..Len(tiers) :
                    /\ \A o \in 1..Len(tiers) : RLe(sum(o), sum(k))
                    /\ \A o \in 1..(k - 1) : RLt(sum(o), sum(k))
    IN  tiers[best]

\* the scenarios keep each column of df_work as a function of the row index

scenario_price_shock(d, scfg) ==
    LET tier == [i \in RowIdx(d) |-> Tier(d.rows[i])]
        haircut == [i \in RowIdx(d) |->
                       TierMap(tier[i], scfg.price_shock_ig, scfg.price_shock_bb,
                               scfg.price_shock_b, scfg.price_shock_ccc,
                               scfg.price_shock_b, scfg.price_shock_b)]
        base_mv == [i \in RowIdx(d) |-> BaseMv(d.rows[i])]
        stressed_price == [i \in RowIdx(d) |->
            IF d.rows[i].market_price = <<>> THEN <<>>
            ELSE <<RMax(RSub(R(d.rows[i].market_price[1]), haircut[i]), R(0))>>]
        stressed_mv == [i \in RowIdx(d) |->
            IF stressed_price[i] = <<>> THEN <<>>
            ELSE <<RDiv(RMul(R(d.rows[i].par_amount), stressed_price[i][1]), R(100))>>]
        loss == [i \in RowIdx(d) |->
            IF base_mv[i] = <<>> THEN <<>>
            ELSE <<RSub(base_mv[i][1], stressed_mv[i][1])>>]
        levels == [i \in RowIdx(d) |->
                      [asset_id |-> d.rows[i].asset_id,
                       issuer_name |-> d.rows[i].issuer_name,
                       tier |-> tier[i],
                       market_price |-> d.rows[i].market_price,
                       stressed_price |-> stressed_price[i],
                       loss |-> loss[i]]]
        total_loss == SumSkipNa(loss)
        total_base_mv == SumSkipNa(base_mv)
    IN  ScenarioResult("Price Shock", total_loss,
                       IF RGt(total_base_mv, R(0)) THEN RDiv(total_loss, total_base_mv)
                       ELSE R(0),
                       [worst_tier |-> IF Empty(d) THEN "N/A" ELSE WorstTier(levels)],
                       levels)

scenario_default_stress(d, scfg) ==
    LET tier == [i \in RowIdx(d) |-> Tier(d.rows[i])]
        cdr == [i \in RowIdx(d) |->
                   TierMap(tier[i], scfg.cdr_ig, scfg.cdr_bb, scfg.cdr_b,
                           scfg.cdr_ccc, scfg.cdr_b, scfg.cdr_b)]
        recovery == [i \in RowIdx(d) |-> get_recovery_rate(d.rows[i].lien_type, scfg)]
        expected_default_par == [i \in RowIdx(d) |->
                                    RMul(R(d.rows[i].par_amount), cdr[i])]
        loss == [i \in RowIdx(d) |->
                    RMul(expected_default_par[i], RSub(R(1), recovery[i]))]
        levels == [i \in RowIdx(d) |->
                      [asset_id |-> d.rows[i].asset_id,
                       issuer_name |-> d.rows[i].issuer_name,
                       tier |-> tier[i],
                       cdr |-> cdr[i],
                       recovery |-> recovery[i],
                       expected_default_par |-> expected_default_par[i],
                       loss |-> loss[i]]]
        total_loss == RSum(loss)
        total_par == SumPar(d.rows)
        n_defaulting == Cardinality({i \in RowIdx(d) :
                            RGt(expected_default_par[i], R(0))})
    IN  ScenarioResult("Default Stress", total_loss,
                       IF total_par > 0 THEN RDiv(total_loss, R(total_par)) ELSE R(0),
                       [n_defaulting |-> n_defaulting],
                       levels)

\* years_to_mat: the whole days from the clock (read during day `clock`) to
\* the maturity, over 365, not below 0; missing for a missing maturity; 3.0
\* without the column
\* a variant that lets a maturity in the past count as negative years
YearsToMat_NoClip(d, asset, clock) ==
    IF ~HasCol(d, "maturity_date") THEN <<R(3)>>
    ELSE IF asset.maturity_date = <<>> THEN <<>>
    ELSE <<Rat(asset.maturity_date[1] - clock - 1, 365)>>

YearsToMat(d, asset, clock) ==
    IF ~HasCol(d, "maturity_date") THEN <<R(3)>>
    ELSE IF asset.maturity_date = <<>> THEN <<>>
    ELSE <<RMax(Rat(asset.maturity_date[1] - clock - 1, 365), R(0))>>

scenario_spread_widening(d, scfg, clock) ==
    LET tier == [i \in RowIdx(d) |-> Tier(d.rows[i])]
        spread_shock_bps == [i \in RowIdx(d) |->
            TierMap(tier[i], scfg.spread_shock_ig, scfg.spread_shock_bb,
                    scfg.spread_shock_b, scfg.spread_shock_ccc,
                    scfg.spread_shock_b, scfg.spread_shock_b)]
        years_to_mat == [i \in RowIdx(d) |-> YearsToMat(d, d.rows[i], clock)]
        est_duration == [i \in RowIdx(d) |->
            IF years_to_mat[i] = <<>> THEN <<>>
            ELSE <<RMul(years_to_mat[i][1], <<9, 10>>)>>]
        base_mv == [i \in RowIdx(d) |-> BaseMv(d.rows[i])]
        loss == [i \in RowIdx(d) |->
            IF base_mv[i] = <<>> \/ est_duration[i] = <<>> THEN <<>>
            ELSE <<RDiv(RMul(RMul(base_mv[i][1], est_duration[i][1]),
                             spread_shock_bps[i]), R(10000))>>]
        levels == [i \in RowIdx(d) |->
                      [asset_id |-> d.rows[i].asset_id,
                       issuer_name |-> d.rows[i].issuer_name,
                       tier |-> tier[i],
                       spread_shock_bps |-> spread_shock_bps[i],
                       est_duration |-> est_duration[i],
                       loss |-> loss[i]]]
        total_loss == SumSkipNa(loss)
        total_base_mv == SumSkipNa(base_mv)
        avg_shock == IF Empty(d) THEN <<>>
                     ELSE <<RoundHalfEven(RDiv(RSum(spread_shock_bps), R(Len(d.rows))))>>
    IN  ScenarioResult("Spread Widening", total_loss,
                       IF RGt(total_base_mv, R(0)) THEN RDiv(total_loss, total_base_mv)
                       ELSE R(0),
                       [avg_shock |-> avg_shock],
                       levels)

\* int(x) of a float
Trunc(a) == IF a[1] >= 0 THEN a[1] \div a[2] ELSE -((-a[1]) \div a[2])

\* g.nlargest(n, "par_amount").index over the rows `group` (indices of d):
\* the n largest pars, the earlier row first among equal pars
NLargestByPar(d, group, n) ==
    {i \in group :
        Cardinality({j \in group :
            \/ d.rows[j].par_amount > d.rows[i].par_amount
            \/ d.rows[j].par_amount = d.rows[i].par_amount /\ j < i}) < n}

\* migrated_indices: over the tiers, the top rows of each tier
MigratedIndices(d, tier, scfg) ==
    UNION {LET g == {i \in RowIdx(d) : tier[i] = t}
               n == Trunc(RMul(R(Cardinality(g)), scfg.migration_rate))
               n_migrate == IF n > 1 THEN n ELSE 1
           IN  NLargestByPar(d, g, n_migrate) :
           t \in {tier[i] : i \in RowIdx(d)}}

scenario_downgrade_migration(d, scfg) ==
    LET haircuts(t) == TierMap(t, scfg.price_shock_ig, scfg.price_shock_bb,
                               scfg.price_shock_b, scfg.price_shock_ccc,
                               scfg.price_shock_b, R(0))
        tier == [i \in RowIdx(d) |-> Tier(d.rows[i])]
        migrated_indices == MigratedIndices(d, tier, scfg)
        stressed_rating == [i \in RowIdx(d) |->
            IF i \in migrated_indices THEN downgrade_one_notch(d.rows[i].rating_moodys)
            ELSE d.rows[i].rating_moodys]
        stressed_tier == [i \in RowIdx(d) |-> rating_to_tier(stressed_rating[i])]
        incremental_haircut == [i \in RowIdx(d) |->
            IF i \in migrated_indices
                THEN RMax(RSub(haircuts(stressed_tier[i]), haircuts(tier[i])), R(0))
            ELSE R(0)]
        loss == [i \in RowIdx(d) |->
                    RDiv(RMul(R(d.rows[i].par_amount), incremental_haircut[i]), R(100))]
        levels == [i \in RowIdx(d) |->
                      [asset_id |-> d.rows[i].asset_id,
                       issuer_name |-> d.rows[i].issuer_name,
                       original_tier |-> tier[i],
                       stressed_tier |-> stressed_tier[i],
                       migrated |-> i \in migrated_indices,
                       loss |-> loss[i]]]
        total_loss == RSum(loss)
        total_par == SumPar(d.rows)
        ccc_par_stressed ==
            ISum([i \in RowIdx(d) |->
                     IF stressed_tier[i] = "CCC" THEN d.rows[i].par_amount ELSE 0])
        new_ccc_pct == IF total_par > 0 THEN Rat(ccc_par_stressed, total_par) ELSE R(0)
    IN  ScenarioResult("Downgrade Migration", total_loss,
                       IF total_par > 0 THEN RDiv(total_loss, R(total_par)) ELSE R(0),
                       [stressed_ccc |-> RoundTo(RMul(new_ccc_pct, R(100)), 10)],
                       levels)

\* a variant that takes the first top_n issuers in key order, whatever their par
TopObligors_FirstKeys(d, scfg) ==
    LET issuers == SortKeys(Keys(d.rows, "issuer_name")) IN
    {issuers[k] : k \in {k \in 1..Len(issuers) : k <= scfg.concentration_top_n}}

\* groupby("issuer_name")["par_amount"].sum().nlargest(top_n).index: the
\* issuers (missing names left out) with the top_n largest sums, the earlier
\* key first among equal sums
TopObligors(d, scfg) ==
    LET issuers == SortKeys(Keys(d.rows, "issuer_name"))
        par(k) == GroupPar(d.rows, "issuer_name", issuers[k])
    IN  {issuers[k] : k \in {k \in 1..Len(issuers) :
            Cardinality({j \in 1..Len(issuers) :
                \/ par(j) > par(k)
                \/ par(j) = par(k) /\ j < k}) < scfg.concentration_top_n}}

\* names_order is list(top_obligors): the set in the order the interpreter
\* iterates it, which the hashing of text fixes per process
scenario_concentration(d, scfg, names_order) ==
    LET top_obligors == TopObligors(d, scfg)
        is_top_n(a) == a.issuer_name # NaN /\ a.issuer_name \in top_obligors
        recovery(a) == get_recovery_rate(a.lien_type, scfg)
        loss(a) == IF is_top_n(a)
                       THEN RMul(R(a.par_amount), RSub(R(1), recovery(a)))
                   ELSE R(0)
        total_loss == RSum([i \in RowIdx(d) |-> loss(d.rows[i])])
        total_par == SumPar(d.rows)
        top_rows == SelectSeq(d.rows, is_top_n)
    IN  ScenarioResult("Concentration", total_loss,
                       IF total_par > 0 THEN RDiv(total_loss, R(total_par)) ELSE R(0),
                       [top_n |-> scfg.concentration_top_n,
                        obligor_names |-> SubSeq(names_order, 1,
                            IF Len(names_order) < 3 THEN Len(names_order) ELSE 3)],
                       [i \in 1..Len(top_rows) |->
                           [asset_id |-> top_rows[i].asset_id,
                            issuer_name |-> top_rows[i].issuer_name,
                            par_amount |-> top_rows[i].par_amount,
                            recovery |-> recovery(top_rows[i]),
                            loss |-> loss(top_rows[i])]])

\* the columns run_all_scenarios and the scenarios index without a test; a
\* frame without one of them raises KeyError
StressColumns ==
    {"asset_id", "issuer_name", "par_amount", "market_price", "rating_moodys",
     "lien_type"}

\* a variant that adds the five scenario losses
TotalStressedLoss_AllFive(s1, s2, s3, s4, s5) ==
    RAdd(RAdd(RAdd(RAdd(s1.loss_dollars, s2.loss_dollars), s3.loss_dollars),
              s4.loss_dollars), s5.loss_dollars)

\* market_loss + credit_loss
TotalStressedLoss(s1, s2, s3, s4, s5) ==
    RAdd(RMax(s1.loss_dollars, s3.loss_dollars), s2.loss_dollars)

\* a variant that adds the stressed loss to the par instead of taking it off
StressedOc_LossAdded(total_par, total_stressed_loss, cash, debt) ==
    IF RGt(debt, R(0))
        THEN RDiv(RAdd(RAdd(total_par, total_stressed_loss), cash), debt)
    ELSE R(0)

\* a variant that leaves the cash out of the stressed OC
StressedOc_NoCash(total_par, total_stressed_loss, cash, debt) ==
    IF RGt(debt, R(0)) THEN RDiv(RSub(total_par, total_stressed_loss), debt) ELSE R(0)

\* (stressed_par + cash_balance) / debt_outstanding if debt_outstanding > 0 else 0
StressedOc(total_par, total_stressed_loss, cash, debt) ==
    IF RGt(debt, R(0))
        THEN RDiv(RAdd(RSub(total_par, total_stressed_loss), cash), debt)
    ELSE R(0)

\* the debt the ratios use: the argument, or the estimate when it is <= 0
StressDebt(d, warehouse_config, debt) ==
    IF RLe(debt, R(0)) THEN
        LET total_par == SumPar(d.rows)
            w_price == IF total_par > 0 THEN Rat(SumParPrice(d.rows), total_par)
                       ELSE R(100)
        IN  RMul(RMul(R(total_par), RDiv(w_price, R(100))), warehouse_config.advance_rate)
    ELSE debt

\* stressed_ccc_pct: each row takes the stressed tier of the first row of the
\* migration table that has its asset_id
StressedCccPct(d, s4) ==
    LET total_par == SumPar(d.rows)
        first(i) == CHOOSE j \in RowIdx(d) :
                        /\ s4.asset_level[j].asset_id = d.rows[i].asset_id
                        /\ \A o \in 1..(j - 1) :
                              s4.asset_level[o].asset_id # d.rows[i].asset_id
        final_tier(i) == s4.asset_level[first(i)].stressed_tier
        stressed_ccc_par ==
            ISum([i \in RowIdx(d) |->
                     IF final_tier(i) = "CCC" THEN d.rows[i].par_amount ELSE 0])
    IN  IF total_par > 0 THEN Rat(stressed_ccc_par, total_par) ELSE R(0)

\* StressResults(...) as run_all_scenarios returns it
StressResults(total_par, base_mv, debt_used, cash, warehouse_config, scenarios, total_stressed_loss, stressed_oc, stressed_ccc_pct) ==
    [warehouse_name |-> "",
     total_par |-> total_par,
     base_mv |-> base_mv,
     base_oc |-> IF RGt(debt_used, R(0))
                     THEN RDiv(RAdd(total_par, cash), debt_used) ELSE R(0),
     scenarios |-> scenarios,
     total_stressed_loss |-> total_stressed_loss,
     stressed_oc |-> stressed_oc,
     oc_trigger |-> warehouse_config.oc_trigger_pct,
     oc_breach |-> RLt(stressed_oc, warehouse_config.oc_trigger_pct),
     stressed_ccc_pct |-> stressed_ccc_pct,
     ccc_breach |-> RGt(stressed_ccc_pct, <<3, 40>>)]

\* the stressed OC of the total loss, then the result
WithStressedOc(total_par, base_mv, debt_used, cash, warehouse_config, scenarios, total_stressed_loss, stressed_ccc_pct) ==
    StressResults(total_par, base_mv, debt_used, cash, warehouse_config, scenarios,
                  total_stressed_loss,
                  StressedOc(total_par, total_stressed_loss, cash, debt_used),
                  stressed_ccc_pct)

\* the aggregation of the five scenario results
Aggregate(d, total_par, base_mv, debt_used, cash, warehouse_config, scenarios) ==
    WithStressedOc(total_par, base_mv, debt_used, cash, warehouse_config, scenarios,
                   TotalStressedLoss(scenarios[1], scenarios[2], scenarios[3],
                                     scenarios[4], scenarios[5]),
                   StressedCccPct(d, scenarios[4]))

\* the portfolio totals, the debt used and the five scenarios, each computed
\* once and handed to the aggregation
run_all_scenarios(d, warehouse_config, scfg, debt, cash, clock, names_order) ==
    IF ~(StressColumns \subseteq d.cols) THEN [raised |-> "KeyError"]
    ELSE Aggregate(d,
                   R(SumPar(d.rows)),
                   IF HasCol(d, "market_price")
                       THEN SumSkipNa([i \in RowIdx(d) |-> BaseMv(d.rows[i])])
                   ELSE R(SumPar(d.rows)),
                   StressDebt(d, warehouse_config, debt),
                   cash, warehouse_config,
                   <<scenario_price_shock(d, scfg),
                     scenario_default_stress(d, scfg),
                     scenario_spread_widening(d, scfg, clock),
                     scenario_downgrade_migration(d, scfg),
                     scenario_concentration(d, scfg, names_order)>>)

-----------------------------------------------------------------------------
(* Inputs of the stress engine, and the claims about it.                   *)

\* a B3 first-lien loan at par, a Caa1 second-lien loan, an unrated unpriced
\* loan without maturity, a Ca loan priced 10 and past maturity, and a Ba3
\* loan labelled "Second Lien" without issuer
StressRows ==
    {Row("L1", "Acme", 5000, <<100>>, "B3", "B3", "1L", "Tech", FALSE, <<376>>, "WH_A"),
     Row("L2", "Beta", 6000, <<95>>, "Caa1", "B3", "2L", "Energy", FALSE, <<741>>, "WH_A"),
     Row("L3", "Beta", 4000, <<>>, NaN, NaN, "Unsecured", "Energy", FALSE, <<>>, "WH_A"),
     Row("L4", "Gamma", 5000, <<10>>, "Ca", "Caa1", NaN, "Tech", TRUE, <<5>>, "WH_A"),
     Row("L5", NaN, 2000, <<100>>, "Ba3", "Ba3", "Second Lien", "Retail", FALSE, <<741>>, "WH_A")}

StressFrames ==
    {[cols |-> c, rows |-> r] :
        c \in {AllColumns, AllColumns \ {"maturity_date"}, AllColumns \ {"market_price"}},
        r \in SeqsUpTo(StressRows, MaxAssets)}

\* the default StressConfig, and the same with another migration rate or
\* with another number of obligors
StressConfigs ==
    {StressConfig,
     [StressConfig EXCEPT !.migration_rate = R(1)],
     [StressConfig EXCEPT !.concentration_top_n = 1]}

\* the arguments debt_outstanding and cash_balance tried together
StressFunding ==
    {[debt |-> <<R(0)>>, cash |-> R(500)], [debt |-> <<R(2000)>>, cash |-> R(500)],
     [debt |-> <<R(8000)>>, cash |-> R(0)]}
StressClockChoices == {10, 375}

\* the orders in which a set of names can be listed
Orderings(S) ==
    {q \in SeqsUpTo(S, Cardinality(S)) :
        Len(q) = Cardinality(S) /\ {q[i] : i \in 1..Len(q)} = S}

InitStress ==
    /\ df \in StressFrames
    /\ config = WarehouseConfig
    /\ stress_cfg \in StressConfigs
    /\ \E f \in StressFunding : debt_outstanding = f.debt /\ cash_balance = f.cash
    /\ now \in StressClockChoices
    /\ configs = <<>>
    /\ result = <<>>
    /\ pc = "start"
    /\ rating_in = NaN
    /\ notches = 0
    /\ published = <<>>
    /\ uploads = <<>>

\* one call run_all_scenarios(df, config, stress_cfg, debt_outstanding, cash_balance)
RunStress ==
    /\ pc = "start"
    /\ \E names_order \in Orderings(TopObligors(df, stress_cfg)) :
          result' = run_all_scenarios(df, config, stress_cfg, debt_outstanding[1],
                                      cash_balance, now, names_order)
    /\ pc' = "done"
    /\ UNCHANGED <<df, config, stress_cfg, debt_outstanding, cash_balance, now, configs,
                   rating_in, notches, published, uploads>>

NextStress == RunStress

SpecStress == InitStress /\ [][NextStress]_vars

\* the call returned a StressResults
Returned == Done /\ StressColumns \subseteq df.cols
ScenarioLoss(k) == result.scenarios[k].loss_dollars

\* the same call under another StressConfig
StressResultUnder(scfg) ==
    run_all_scenarios(df, config, scfg, debt_outstanding[1], cash_balance, now,
                      CHOOSE q \in Orderings(TopObligors(df, scfg)) : TRUE)

\* C1: for a portfolio with the columns the scenarios read,
\* total_stressed_loss = max(Price Shock loss, Spread Widening loss) +
\* Default Stress loss; the Downgrade Migration and Concentration results are
\* in the scenario list, and another migration_rate or concentration_top_n
\* leaves total_stressed_loss, stressed_oc and oc_breach as they are.
C1_TotalIsMarketPlusCredit ==
    Returned =>
        /\ [k \in 1..5 |-> result.scenarios[k].name] =
              <<"Price Shock", "Default Stress", "Spread Widening",
                "Downgrade Migration", "Concentration">>
        /\ result.total_stressed_loss =
              RAdd(RMax(ScenarioLoss(1), ScenarioLoss(3)), ScenarioLoss(2))
        /\ \A other \in StressConfigs \ {stress_cfg} :
              LET r == StressResultUnder(other) IN
              /\ r.total_stressed_loss = result.total_stressed_loss
              /\ r.stressed_oc = result.stressed_oc
              /\ r.oc_breach = result.oc_breach

\* the spread loss exceeds the price-shock loss, and the two scenarios left
\* out of the total both lose money
C1_Witness ==
    /\ Returned
    /\ RGt(ScenarioLoss(3), ScenarioLoss(1))
    /\ RGt(ScenarioLoss(4), R(0)) /\ RGt(ScenarioLoss(5), R(0))
    /\ RGt(ScenarioLoss(2), R(0))

\* the debt C2 describes: the argument when it is > 0, otherwise
\* total par x (par-weighted price / 100) x advance_rate, a missing price
\* adding nothing to the weighted sum
ClaimedDebt ==
    IF RGt(debt_outstanding[1], R(0)) THEN debt_outstanding[1]
    ELSE IF Funded > 0
        THEN RMul(RMul(R(Funded), RDiv(Rat(SumParPrice(df.rows), Funded), R(100))),
                  config.advance_rate)
    ELSE R(0)

\* C2: stressed_oc = (total_par - total_stressed_loss + cash_balance) / debt
\* with that debt, 0 when the debt is <= 0, and oc_breach is true exactly when
\* stressed_oc < oc_trigger_pct.
C2_StressedOcAndBreach ==
    Returned =>
        /\ result.stressed_oc =
              IF RGt(ClaimedDebt, R(0))
                  THEN RDiv(RAdd(RSub(R(Funded), result.total_stressed_loss),
                                 cash_balance), ClaimedDebt)
              ELSE R(0)
        /\ result.oc_breach <=> RLt(result.stressed_oc, config.oc_trigger_pct)

\* the debt was estimated, there is cash, and the stressed OC stays above
\* the trigger
C2_Witness ==
    /\ Returned
    /\ debt_outstanding[1] = R(0) /\ RGt(ClaimedDebt, R(0))
    /\ RGt(cash_balance, R(0))
    /\ RGt(result.total_stressed_loss, R(0))
    /\ ~result.oc_breach

\* C21: two calls of run_all_scenarios with identical asset rows,
\* WarehouseConfig, StressConfig, debt_outstanding and cash_balance return
\* identical StressResults, whatever the wall-clock time and whatever the
\* process (the order in which it iterates a set of names) of each call.
C21_PureFunctionOfArguments ==
    Done =>
        \A clock2 \in StressClockChoices :
            \A order2 \in Orderings(TopObligors(df, stress_cfg)) :
                run_all_scenarios(df, config, stress_cfg, debt_outstanding[1],
                                  cash_balance, clock2, order2) = result

\* the share of total par whose row of the migration table ends in tier CCC
MigrationCccShare(d, s4) ==
    IF SumPar(d.rows) > 0
    THEN Rat(ISum([i \in RowIdx(d) |->
                     IF s4.asset_level[i].stressed_tier = "CCC"
                     THEN d.rows[i].par_amount ELSE 0]),
             SumPar(d.rows))
    ELSE R(0)

\* C24: StressResults.stressed_ccc_pct is the share of total par held by
\* assets whose post-migration tier is CCC, the percentage the Downgrade
\* Migration scenario computes from its own working table, for every
\* portfolio (one with a repeated asset_id included); it is 0 when total
\* par is 0.
C24_StressedCccMatchesMigration ==
    Returned =>
        /\ result.stressed_ccc_pct = MigrationCccShare(df, result.scenarios[4])
        /\ result.scenarios[4].detail.stressed_ccc =
               RoundTo(RMul(result.stressed_ccc_pct, R(100)), 10)
        /\ SumPar(df.rows) = 0 => result.stressed_ccc_pct = R(0)

\* the columns C20 calls optional
OptionalColumns ==
    {"industry_gics", "maturity_date", "market_price", "rating_moodys", "lien_type",
     "is_defaulted"}

\* C20: for a portfolio that has asset_id, issuer_name and par_amount but
\* lacks some of the optional columns, run_all_scenarios (like
\* evaluate_all_alerts and compute_compliance_status) completes without
\* raising and returns its StressResults.
C20_ToleratesMissingColumns ==
    (Done /\ {"asset_id", "issuer_name", "par_amount"} \subseteq df.cols
          /\ OptionalColumns \ df.cols # {}) =>
        /\ "raised" \notin DOMAIN result
        /\ Len(result.scenarios) = 5

\* C30: in every StressResults of a valid input with positive debt,
\* stressed_oc <= base_oc, the two being equal only when
\* total_stressed_loss = 0; so oc_breach is true whenever base_oc is already
\* below oc_trigger_pct.
C30_StressNeverImprovesOc ==
    (Returned /\ RGt(ClaimedDebt, R(0))) =>
        /\ RLe(result.stressed_oc, result.base_oc)
        /\ result.stressed_oc = result.base_oc
               => result.total_stressed_loss = R(0)
        /\ RLt(result.base_oc, config.oc_trigger_pct) => result.oc_breach

\* a run with a loss whose unstressed OC was already below the trigger
C30_Witness ==
    /\ Returned /\ RGt(ClaimedDebt, R(0))
    /\ RGt(result.total_stressed_loss, R(0))
    /\ RLt(result.stressed_oc, result.base_oc)
    /\ RLt(result.base_oc, config.oc_trigger_pct)
    /\ result.oc_breach

-----------------------------------------------------------------------------
(* The scenarios one at a time, and the claims about them.                 *)

\* two B1 first-lien loans of $10M at par, a Caa1 first-lien loan of $5M
\* priced below its haircut and past maturity, an unrated loan labelled
\* "Second Lien" without issuer or maturity, an investment-grade unsecured
\* loan, a Ba2 second-lien loan, and a B2 loan without price or lien label
ScenarioRows ==
    {Row("L1", "Acme", 10000, <<100>>, "B1", "B1", "1L", "Tech", FALSE, <<741>>, "WH_A"),
     Row("L2", "Beta", 10000, <<100>>, "B1", "B1", "1L", "Tech", FALSE, <<741>>, "WH_A"),
     Row("L3", "Gamma", 5000, <<10>>, "Caa1", "B3", "1L", "Energy", FALSE, <<5>>, "WH_A"),
     Row("L4", NaN, 4000, <<80>>, NaN, NaN, "Second Lien", "Energy", FALSE, <<>>, "WH_A"),
     Row("L5", "Acme", 2000, <<95>>, "Baa1", "Baa1", "Unsecured", "Retail", FALSE, <<376>>, "WH_A"),
     Row("L6", "Beta", 3000, <<90>>, "Ba2", "Ba1", "2L", "Retail", FALSE, <<741>>, "WH_A"),
     Row("L7", "Gamma", 1000, <<>>, "B2", "B2", NaN, "Retail", FALSE, <<741>>, "WH_A")}

ScenarioFrames ==
    {[cols |-> c, rows |-> r] :
        c \in {AllColumns, AllColumns \ {"maturity_date"}},
        r \in SeqsUpTo(ScenarioRows, MaxAssets)}

\* the default StressConfig; a larger B haircut; a smaller CCC haircut; no
\* haircut at all; full first-lien recovery with no migration; and a single
\* top obligor
ScenarioConfigs ==
    {StressConfig,
     [StressConfig EXCEPT !.price_shock_b = R(20)],
     [StressConfig EXCEPT !.price_shock_ccc = R(5)],
     [StressConfig EXCEPT !.price_shock_ig = R(0), !.price_shock_bb = R(0),
                          !.price_shock_b = R(0), !.price_shock_ccc = R(0)],
     [StressConfig EXCEPT !.recovery_1l = R(1), !.migration_rate = R(0)],
     [StressConfig EXCEPT !.concentration_top_n = 1]}

\* the day the scenarios run: L3 has matured, L5 matures the next day
ScenarioClock == 375

InitScenarios ==
    /\ df \in ScenarioFrames
    /\ config = WarehouseConfig
    /\ stress_cfg \in ScenarioConfigs
    /\ debt_outstanding = <<>>
    /\ cash_balance = R(0)
    /\ now = ScenarioClock
    /\ configs = <<>>
    /\ result = <<>>
    /\ pc = "start"
    /\ rating_in = NaN
    /\ notches = 0
    /\ published = <<>>
    /\ uploads = <<>>

\* one call scenario_price_shock(df, stress_cfg)
PriceShock ==
    /\ pc = "start"
    /\ result' = scenario_price_shock(df, stress_cfg)
    /\ pc' = "price_shock"
    /\ UNCHANGED <<df, config, stress_cfg, debt_outstanding, cash_balance, now, configs,
                   rating_in, notches, published, uploads>>

\* one call scenario_default_stress(df, stress_cfg)
DefaultStress ==
    /\ pc = "start"
    /\ result' = scenario_default_stress(df, stress_cfg)
    /\ pc' = "default_stress"
    /\ UNCHANGED <<df, config, stress_cfg, debt_outstanding, cash_balance, now, configs,
                   rating_in, notches, published, uploads>>

\* one call scenario_spread_widening(df, stress_cfg)
SpreadWidening ==
    /\ pc = "start"
    /\ result' = scenario_spread_widening(df, stress_cfg, now)
    /\ pc' = "spread_widening"
    /\ UNCHANGED <<df, config, stress_cfg, debt_outstanding, cash_balance, now, configs,
                   rating_in, notches, published, uploads>>

\* one call scenario_downgrade_migration(df, stress_cfg)
DowngradeMigration ==
    /\ pc = "start"
    /\ result' = scenario_downgrade_migration(df, stress_cfg)
    /\ pc' = "downgrade_migration"
    /\ UNCHANGED <<df, config, stress_cfg, debt_outstanding, cash_balance, now, configs,
                   rating_in, notches, published, uploads>>

\* one call scenario_concentration(df, stress_cfg)
Concentration ==
    /\ pc = "start"
    /\ \E names_order \in Orderings(TopObligors(df, stress_cfg)) :
          result' = scenario_concentration(df, stress_cfg, names_order)
    /\ pc' = "concentration"
    /\ UNCHANGED <<df, config, stress_cfg, debt_outstanding, cash_balance, now, configs,
                   rating_in, notches, published, uploads>>

NextScenarios ==
    PriceShock \/ DefaultStress \/ SpreadWidening \/ DowngradeMigration \/ Concentration

SpecScenarios == InitScenarios /\ [][NextScenarios]_vars

\* the haircut C15 gives an asset: that of its tier, the B haircut for NR
ClaimedHaircut(a) ==
    LET tier == rating_to_tier(a.rating_moodys) IN
    IF tier = "IG" THEN stress_cfg.price_shock_ig
    ELSE IF tier = "BB" THEN stress_cfg.price_shock_bb
    ELSE IF tier = "CCC" THEN stress_cfg.price_shock_ccc
    ELSE stress_cfg.price_shock_b

\* the price haircut of a tier: NR takes the B haircut
ClaimedHaircutOfTier(tier) ==
    IF tier = "IG" THEN stress_cfg.price_shock_ig
    ELSE IF tier = "BB" THEN stress_cfg.price_shock_bb
    ELSE IF tier = "CCC" THEN stress_cfg.price_shock_ccc
    ELSE stress_cfg.price_shock_b

\* max(0, market_price - haircut) and par x (market_price - stressed price) / 100
ClaimedStressedPrice(a) == RMax(R(0), RSub(R(a.market_price[1]), ClaimedHaircut(a)))
ClaimedPriceLoss(a) ==
    RDiv(RMul(R(a.par_amount), RSub(R(a.market_price[1]), ClaimedStressedPrice(a))),
         R(100))

\* C15: in Price Shock each (priced) asset's stressed price is
\* max(0, market_price - haircut of its tier), NR taking the B haircut; the
\* scenario loss is the sum of par x (market_price - stressed price) / 100;
\* no asset loses more than its base market value; two B1 assets of $10M at
\* 100 with price_shock_b = 5 give stressed price 95 twice and a loss of
\* exactly $1,000,000.
C15_PriceShock ==
    pc = "price_shock" =>
        LET lv == result.asset_level
            priced == SelectSeq(df.rows, LAMBDA a : a.market_price # <<>>)
        IN  /\ Len(lv) = Len(df.rows)
            /\ \A i \in RowIdx(df) :
                  IF df.rows[i].market_price = <<>>
                      THEN lv[i].stressed_price = <<>> /\ lv[i].loss = <<>>
                  ELSE /\ lv[i].stressed_price = <<ClaimedStressedPrice(df.rows[i])>>
                       /\ lv[i].loss = <<ClaimedPriceLoss(df.rows[i])>>
                       /\ RLe(lv[i].loss[1], BaseMv(df.rows[i])[1])
            /\ result.loss_dollars =
                   RSum([k \in 1..Len(priced) |-> ClaimedPriceLoss(priced[k])])
            /\ ( /\ Len(df.rows) = 2
                 /\ \A i \in 1..2 :
                       /\ df.rows[i].rating_moodys = "B1"
                       /\ df.rows[i].par_amount = 10000
                       /\ df.rows[i].market_price = <<100>>
                 /\ stress_cfg.price_shock_b = R(5) )
                  => /\ result.loss_dollars = R(1000)
                     /\ \A i \in 1..2 : lv[i].stressed_price = <<R(95)>>

\* the two-loan example has been run and lost exactly $1,000,000
C15_Witness ==
    /\ pc = "price_shock"
    /\ Len(df.rows) = 2
    /\ df.rows[1].asset_id = "L1" /\ df.rows[2].asset_id = "L2"
    /\ stress_cfg.price_shock_b = R(5)
    /\ result.loss_dollars = R(1000)
    /\ result.asset_level[1].stressed_price = <<R(95)>>

\* the CDR C16 gives an asset: that of its tier, the B rate for NR
ClaimedCdr(a) ==
    LET tier == rating_to_tier(a.rating_moodys) IN
    IF tier = "IG" THEN stress_cfg.cdr_ig
    ELSE IF tier = "BB" THEN stress_cfg.cdr_bb
    ELSE IF tier = "CCC" THEN stress_cfg.cdr_ccc
    ELSE stress_cfg.cdr_b

\* the recovery C16 gives a lien label: "1", then "2", then "UN" looked for in
\* the upper-cased label, first-lien when there is no label or none matches
ClaimedRecovery(lien_type) ==
    IF lien_type = NaN THEN stress_cfg.recovery_1l
    ELSE LET label == Upper(Chars(lien_type)) IN
         CASE Contains(label, <<"1">>) -> stress_cfg.recovery_1l
           [] ~Contains(label, <<"1">>) /\ Contains(label, <<"2">>) ->
                  stress_cfg.recovery_2l
           [] ~Contains(label, <<"1">>) /\ ~Contains(label, <<"2">>)
                  /\ Contains(label, <<"U", "N">>) -> stress_cfg.recovery_unsecured
           [] OTHER -> stress_cfg.recovery_1l

ClaimedDefaultLoss(a) ==
    RMul(RMul(R(a.par_amount), ClaimedCdr(a)), RSub(R(1), ClaimedRecovery(a.lien_type)))

HaircutFields == {"price_shock_ig", "price_shock_bb", "price_shock_b", "price_shock_ccc"}

\* c2 is c1 with some haircuts increased and everything else fixed
HaircutsRaised(c1, c2) ==
    /\ \A f \in HaircutFields : RLe(c1[f], c2[f])
    /\ \A f \in (DOMAIN c1) \ HaircutFields : c1[f] = c2[f]

\* total_stressed_loss of the portfolio and configuration of the state
StateTotalStressedLoss ==
    TotalStressedLoss(scenario_price_shock(df, stress_cfg),
                      scenario_default_stress(df, stress_cfg),
                      scenario_spread_widening(df, stress_cfg, now),
                      scenario_downgrade_migration(df, stress_cfg),
                      scenario_concentration(df, stress_cfg,
                          CHOOSE q \in Orderings(TopObligors(df, stress_cfg)) : TRUE))

ClaimedMigrated(d, scfg) ==
    {i \in RowIdx(d) :
        LET same == {j \in RowIdx(d) : Tier(d.rows[j]) = Tier(d.rows[i])}
            ahead == {j \in same :
                        \/ d.rows[j].par_amount > d.rows[i].par_amount
                        \/ d.rows[j].par_amount = d.rows[i].par_amount /\ j < i}
        IN  Cardinality(ahead) < RFloor(RMul(scfg.migration_rate, R(Cardinality(same))))}

\* C23: Downgrade Migration marks as migrated, within each rating tier,
\* exactly the top migration_rate fraction of the tier's assets by par
\* (floor(migration_rate x tier size) assets, largest par first, ties by row
\* order), downgrades only those one notch and gives every other asset zero
\* loss; a migrated asset loses
\* par x max(0, haircut of new tier - haircut of old tier) / 100.
C23_MigratesTopFraction ==
    pc = "downgrade_migration" =>
        \A i \in RowIdx(df) :
            LET a == df.rows[i]
                lv == result.asset_level[i]
                new_tier == rating_to_tier(downgrade_one_notch(a.rating_moodys))
            IN  /\ lv.migrated = (i \in ClaimedMigrated(df, stress_cfg))
                /\ lv.original_tier = rating_to_tier(a.rating_moodys)
                /\ IF lv.migrated
                       THEN /\ lv.stressed_tier = new_tier
                            /\ lv.loss = RDiv(RMul(R(a.par_amount),
                                   RMax(R(0), RSub(ClaimedHaircutOfTier(new_tier),
                                                   ClaimedHaircutOfTier(lv.original_tier)))),
                                   R(100))
                   ELSE /\ lv.stressed_tier = lv.original_tier
                        /\ lv.loss = R(0)

\* the estimated duration the documentation gives an asset: 0.9 x max(0, years
\* to maturity), and 3.0 years when its maturity is unavailable
ClaimedDuration(d, asset, clock) ==
    IF ~HasCol(d, "maturity_date") \/ asset.maturity_date = <<>> THEN R(3)
    ELSE RMul(<<9, 10>>, RMax(Rat(asset.maturity_date[1] - clock - 1, 365), R(0)))

\* base MV x duration x shock_bps / 10000 of a priced asset
ClaimedSpreadLoss(d, asset, clock, bps) ==
    RDiv(RMul(RMul(BaseMv(asset)[1], ClaimedDuration(d, asset, clock)), bps), R(10000))

\* C26: Spread Widening gives every asset the estimated duration
\* 0.9 x max(0, years to maturity), or 3.0 years when the maturity is
\* unavailable (column absent or the asset's own value missing), so every
\* priced asset contributes base MV x duration x shock_bps / 10000 to the loss.
C26_DurationWithFallback ==
    pc = "spread_widening" =>
        LET lv == result.asset_level
            priced == {k \in RowIdx(df) : df.rows[k].market_price # <<>>}
        IN  /\ Len(lv) = Len(df.rows)
            /\ \A k \in RowIdx(df) :
                   lv[k].est_duration = <<ClaimedDuration(df, df.rows[k], now)>>
            /\ \A k \in priced :
                   lv[k].loss = <<ClaimedSpreadLoss(df, df.rows[k], now,
                                                   lv[k].spread_shock_bps)>>
            /\ result.loss_dollars =
                   RSum([k \in RowIdx(df) |->
                           IF k \in priced
                           THEN ClaimedSpreadLoss(df, df.rows[k], now,
                                                  lv[k].spread_shock_bps)
                           ELSE R(0)])

\* the total par of one obligor
ObligorPar(d, issuer) ==
    ISum([i \in RowIdx(d) |->
            IF d.rows[i].issuer_name = issuer THEN d.rows[i].par_amount ELSE 0])

\* par x (1 - recovery(lien)) of one position
ClaimedDefaultedLoss(a) ==
    RMul(R(a.par_amount), RSub(R(1), ClaimedRecovery(a.lien_type)))

\* C25: Concentration Blow-up selects the min(N, number of issuers) obligors
\* of largest total par (N = concentration_top_n); its loss is the sum of
\* par x (1 - recovery(lien)) over exactly the positions of those obligors,
\* the positions of every other obligor contribute 0, and no unselected
\* obligor has a larger total par than a selected one.
C25_TopObligorsDefault ==
    pc = "concentration" =>
        LET issuers == {df.rows[i].issuer_name : i \in RowIdx(df)} \ {NaN}
            lv == result.asset_level
            selected == {lv[k].issuer_name : k \in 1..Len(lv)}
            positions == SelectSeq(df.rows, LAMBDA a : a.issuer_name \in selected)
            N == stress_cfg.concentration_top_n
        IN  /\ selected \subseteq issuers
            /\ Cardinality(selected) =
                   IF N < Cardinality(issuers) THEN N ELSE Cardinality(issuers)
            /\ \A s \in selected, u \in issuers \ selected :
                   ObligorPar(df, u) <= ObligorPar(df, s)
            /\ Len(lv) = Len(positions)
            /\ \A k \in 1..Len(lv) :
                   /\ lv[k].asset_id = positions[k].asset_id
                   /\ lv[k].loss = ClaimedDefaultedLoss(positions[k])
            /\ result.loss_dollars =
                   RSum([k \in 1..Len(positions) |-> ClaimedDefaultedLoss(positions[k])])

\* with N = 1 and two obligors of different size, the larger one alone has
\* defaulted
C25_Witness ==
    /\ pc = "concentration"
    /\ stress_cfg.concentration_top_n = 1
    /\ Len(df.rows) = 2
    /\ df.rows[1].issuer_name = "Acme" /\ df.rows[1].par_amount = 2000
    /\ df.rows[2].issuer_name = "Beta" /\ df.rows[2].par_amount = 10000
    /\ Len(result.asset_level) = 1
    /\ result.asset_level[1].issuer_name = "Beta"
    /\ RGt(result.loss_dollars, R(0))

-----------------------------------------------------------------------------
(* The rating functions on their own, and the claims about them.           *)

MaxNotches == 21

\* strings that are not keys of RATING_ORDER: agency codes, bare prefixes,
\* out-of-range notches, padded and blank text
OffScaleRatings ==
    {"", "  ", " B2 ", "NR", "WR", "D", "B", "Ba", "Baa", "Caa", "A", "Aa",
     "CCC", "BB", "Ca2", "C1", "Baa4", "B4", "A4", "BCaa1"}

RatingInputs == {RatingScale[i] : i \in 1..Len(RatingScale)} \cup OffScaleRatings \cup {NaN}

InitRatings ==
    /\ df = [cols |-> {}, rows |-> <<>>]
    /\ config = WarehouseConfig
    /\ stress_cfg = StressConfig
    /\ debt_outstanding = <<>>
    /\ cash_balance = R(0)
    /\ now = 10
    /\ configs = <<>>
    /\ result = <<>>
    /\ pc = "start"
    /\ rating_in \in RatingInputs
    /\ notches = 0
    /\ published = <<>>
    /\ uploads = <<>>

\* one call rating_to_tier(rating_in)
Classify ==
    /\ result' = [tier |-> rating_to_tier(rating_in)]
    /\ pc' = "classified"
    /\ UNCHANGED <<df, config, stress_cfg, debt_outstanding, cash_balance, now, configs,
                   rating_in, notches, published, uploads>>

\* one call rating_in = downgrade_one_notch(rating_in)
Downgrade ==
    /\ notches < MaxNotches
    /\ rating_in' = downgrade_one_notch(rating_in)
    /\ notches' = notches + 1
    /\ result' = [from |-> rating_in, to |-> downgrade_one_notch(rating_in)]
    /\ pc' = "downgraded"
    /\ UNCHANGED <<df, config, stress_cfg, debt_outstanding, cash_balance, now, configs,
                   published, uploads>>

NextRatings == Classify \/ Downgrade

SpecRatings == InitRatings /\ [][NextRatings]_vars

\* a rating of the 21-point scale, and its rank
IsOnScale(r) == r # NaN /\ OnScale(Chars(r))
Rank(r) == RATING_ORDER(Chars(r))

\* the tier C12 gives a rating (surrounding blanks aside)
ClaimedTier(r) ==
    IF r = NaN \/ r = "" THEN "NR"
    ELSE LET cs == Strip(Chars(r)) IN
         IF OnScale(cs) THEN
             (IF RATING_ORDER(cs) <= 10 THEN "IG"
              ELSE IF RATING_ORDER(cs) <= 13 THEN "BB"
              ELSE IF RATING_ORDER(cs) <= 16 THEN "B"
              ELSE "CCC")
         ELSE IF StartsWith(cs, <<"C">>) THEN "CCC"
         ELSE IF StartsWith(cs, <<"B", "a">>) THEN "BB"
         ELSE IF StartsWith(cs, <<"B">>) THEN "B"
         ELSE IF StartsWith(cs, <<"A">>) THEN "IG"
         ELSE "NR"

\* C12: rating_to_tier maps the scale by rank (Aaa..Baa3 IG, Ba1..Ba3 BB,
\* B1..B3 B, Caa1..C CCC), null and empty to NR, and a string off the scale by
\* its prefix: "Caa", "Ca" or "C" to CCC, "Ba" to BB, "B" not followed by "a"
\* to B, the remaining A / Aa prefixes to IG, anything else to NR.
C12_RatingToTier ==
    pc = "classified" => result.tier = ClaimedTier(rating_in)

\* C13: the bottom of the scale is absorbing: C and Ca downgrade to C, every
\* other rating of the scale to the rating of rank + 1, so the rank never
\* decreases and 20 downgrades from any rating of the scale end at C, where
\* further downgrades stay.
C13_BottomAbsorbing ==
    /\ (pc = "downgraded" /\ IsOnScale(result.from)) =>
           /\ IsOnScale(result.to)
           /\ Rank(result.to) >= Rank(result.from)
           /\ result.from \in {"Ca", "C"} => result.to = "C"
           /\ result.from \notin {"Ca", "C"} => Rank(result.to) = Rank(result.from) + 1
    /\ (IsOnScale(rating_in) /\ notches >= 20) => rating_in = "C"

\* the twentieth downgrade of a chain turns Ca into C
C13_Witness ==
    /\ pc = "downgraded" /\ notches = 20
    /\ result.from = "Ca" /\ result.to = "C" /\ rating_in = "C"

\* C14 as stated: Ca, C and every string off the scale come back unchanged.
C14_AsStated ==
    (pc = "downgraded" /\ (result.from \in {"Ca", "C"} \/ ~IsOnScale(result.from)))
        => result.to = result.from

\* C14 amended: C, the bottom of the scale, and every string off the scale
\* (null included) come back unchanged.
C14_BottomAndUnknownUnchanged ==
    (pc = "downgraded" /\ (result.from = "C" \/ ~IsOnScale(result.from)))
        => result.to = result.from

\* a padded rating, which is no key of the scale, came back as it was
C14_Witness ==
    pc = "downgraded" /\ result.from = " B2 " /\ result.to = " B2 "

-----------------------------------------------------------------------------
(* The remaining portfolio metrics (src/src/risk_analytics.py).            *)

\* compute_hhi(df, group_col): the sum of the squared par shares of the groups
compute_hhi(d, group_col) ==
    IF Empty(d) \/ ~HasCol(d, group_col) THEN R(0)
    ELSE LET total == SumPar(d.rows)
             keys == SortKeys(Keys(d.rows, group_col))
             share(k) == Rat(GroupPar(d.rows, group_col, keys[k]), total)
         IN  IF total <= 0 THEN R(0)
             ELSE RSum([k \in 1..Len(keys) |-> RMul(share(k), share(k))])

\* groupby(col)[par].sum() as a table with "% of Portfolio", sorted by par
\* descending (equal sums keep the ascending key order of the groupby)
RECURSIVE ExposureTable(_, _, _)
ExposureTable(rows, col, total_par) ==
    IF Keys(rows, col) = {} THEN <<>>
    ELSE LET top == TopKey(rows, col)
             par == GroupPar(rows, col, top)
         IN  <<[key |-> top, par_amount |-> par,
                pct_of_portfolio |-> RoundTo(Rat(par * 100, total_par), 100)]>>
             \o ExposureTable(SelectSeq(rows, LAMBDA r : r[col] # top), col, total_par)

\* df[weight] * df[col].fillna(0), summed
SumParTimes(rows, col) ==
    RSum([i \in 1..Len(rows) |->
            IF rows[i][col] = <<>> THEN R(0)
            ELSE RMul(R(rows[i].par_amount), rows[i][col][1])])

compute_coupon_analytics(d) ==
    LET none == [wavg_coupon |-> R(0), wavg_floor |-> R(0), pct_with_floor |-> R(0),
                 index_breakdown |-> <<>>]
        total_par == SumPar(d.rows)
        floored == SelectSeq(d.rows, LAMBDA r : r.floor # <<>> /\ RGt(r.floor[1], R(0)))
    IN  IF Empty(d) THEN none
        ELSE IF total_par <= 0 THEN none
        ELSE [wavg_coupon |-> IF HasCol(d, "coupon")
                              THEN RDiv(SumParTimes(d.rows, "coupon"), R(total_par))
                              ELSE R(0),
              wavg_floor |-> IF HasCol(d, "floor")
                             THEN RDiv(SumParTimes(d.rows, "floor"), R(total_par))
                             ELSE R(0),
              pct_with_floor |-> IF HasCol(d, "floor")
                                 THEN Rat(SumPar(floored), total_par)
                                 ELSE R(0),
              index_breakdown |-> IF HasCol(d, "index")
                                  THEN ExposureTable(d.rows, "index", total_par)
                                  ELSE <<>>]

compute_country_concentration(d) ==
    IF Empty(d) \/ ~HasCol(d, "country") THEN <<>>
    ELSE IF SumPar(d.rows) <= 0 THEN <<>>
    ELSE ExposureTable(d.rows, "country", SumPar(d.rows))

\* compute_portfolio_duration(df): as_of_date is the clock; money is in
\* thousands of dollars, so a DV01 in dollars is a thousand times the sum
compute_portfolio_duration(d, clock) ==
    LET none == [weighted_avg_duration |-> R(0), portfolio_dv01 |-> R(0),
                 dv01_per_million |-> R(0)]
        total_par == SumPar(d.rows)
        est_duration == [i \in RowIdx(d) |->
            IF YearsToMat(d, d.rows[i], clock) = <<>> THEN <<>>
            ELSE <<RMul(YearsToMat(d, d.rows[i], clock)[1], Rat(9, 10))>>]
        mv == [i \in RowIdx(d) |-> BaseMv(d.rows[i])]
        asset_dv01 == [i \in RowIdx(d) |->
            IF mv[i] = <<>> \/ est_duration[i] = <<>> THEN <<>>
            ELSE <<RDiv(RMul(mv[i][1], est_duration[i][1]), R(10000))>>]
        par_duration == [i \in RowIdx(d) |->
            IF est_duration[i] = <<>> THEN <<>>
            ELSE <<RMul(R(d.rows[i].par_amount), est_duration[i][1])>>]
        total_dv01 == RMul(SumSkipNa(asset_dv01), R(1000))
        total_mv == SumSkipNa(mv)
    IN  IF Empty(d) \/ ~HasCol(d, "maturity_date") \/ ~HasCol(d, "market_price")
        THEN none
        ELSE IF total_par <= 0 THEN none
        ELSE [weighted_avg_duration |->
                  RoundTo(RDiv(SumSkipNa(par_duration), R(total_par)), 100),
              portfolio_dv01 |-> RoundTo(total_dv01, 1),
              dv01_per_million |->
                  IF RGt(total_mv, R(0))
                  THEN RoundTo(RDiv(total_dv01, RDiv(total_mv, R(1000))), 1)
                  ELSE R(0)]

\* the largest groupby("industry_gics") sum and its key (idxmax: the first of
\* the largest in key order)
MaxIndustry(d) ==
    LET K == Keys(d.rows, "industry_gics") IN
    IF K = {} THEN [pct |-> R(0), name |-> ""]
    ELSE [pct |-> Rat(GroupPar(d.rows, "industry_gics", TopKey(d.rows, "industry_gics")),
                      SumPar(d.rows)),
          name |-> TopKey(d.rows, "industry_gics")]

compute_compliance_status(d, cfg) ==
    LET none == [oc_ratio |-> R(0), ccc_pct |-> R(0), max_industry_pct |-> R(0),
                 max_industry_name |-> "", max_single_name_pct |-> R(0),
                 max_single_name |-> "", second_lien_pct |-> R(0),
                 unsecured_pct |-> R(0), warf |-> R(0), diversity_score |-> R(0),
                 issuer_hhi |-> R(0), industry_hhi |-> R(0)]
        funded == SumPar(d.rows)
        ccc_rows == SelectSeq(d.rows, LAMBDA r : CccPattern(r.rating_moodys))
    IN  IF Empty(d) THEN none
        ELSE IF funded <= 0 THEN none
        ELSE [oc_ratio |->
                  IF HasCol(d, "market_price") /\ RGt(EstimatedDebt(d, cfg), R(0))
                  THEN RDiv(R(funded), EstimatedDebt(d, cfg)) ELSE R(0),
              ccc_pct |-> IF HasCol(d, "rating_moodys")
                          THEN Rat(SumPar(ccc_rows), funded) ELSE R(0),
              max_industry_pct |-> IF HasCol(d, "industry_gics")
                                   THEN MaxIndustry(d).pct ELSE R(0),
              max_industry_name |-> IF HasCol(d, "industry_gics")
                                    THEN MaxIndustry(d).name ELSE "",
              max_single_name_pct |->
                  compute_single_name_concentration(d).max_single_issuer_pct,
              max_single_name |->
                  compute_single_name_concentration(d).max_single_issuer_name,
              second_lien_pct |-> compute_lien_breakdown(d)["2L_pct"],
              unsecured_pct |-> compute_lien_breakdown(d)["unsecured_pct"],
              warf |-> compute_warf(d),
              diversity_score |-> compute_diversity_score(d),
              issuer_hhi |-> compute_hhi(d, "issuer_name"),
              industry_hhi |-> IF HasCol(d, "industry_gics")
                               THEN compute_hhi(d, "industry_gics") ELSE R(0)]

-----------------------------------------------------------------------------
(* The portfolio metrics one at a time, and the claims about them.         *)

MaxIssuers == 11

IssuerNames ==
    <<"N01", "N02", "N03", "N04", "N05", "N06", "N07", "N08", "N09", "N10", "N11",
      "N12", "N13">>

MetricColumns == AllColumns \cup {"coupon", "floor", "index", "country"}

\* a first-lien B2 loan priced 98 that matures two years after the clock,
\* with the columns the coupon and country analytics read
MetricRow(issuer, par, industry) ==
    [coupon |-> <<Rat(17, 2)>>, floor |-> <<R(1)>>, index |-> "SOFR", country |-> "US"]
    @@ Row(issuer, issuer, par, <<98>>, "B2", "B2", "1L", industry, FALSE, <<741>>, "WH_A")

\* n1 issuers in Tech and n2 in Energy, one loan each, and if dup a second
\* loan of the first Tech issuer
DiversityFrame(n1, n2, dup) ==
    [cols |-> MetricColumns,
     rows |-> [i \in 1..n1 |-> MetricRow(IssuerNames[i], 1000, "Tech")]
              \o [i \in 1..n2 |-> MetricRow(IssuerNames[i], 2000, "Energy")]
              \o (IF dup /\ n1 > 0 THEN <<MetricRow(IssuerNames[1], 500, "Tech")>>
                  ELSE <<>>)]

DiversityFrames ==
    {DiversityFrame(n1, n2, dup) : n1 \in 0..MaxIssuers, n2 \in 0..2, dup \in BOOLEAN}

\* loans of zero, negative and positive par
GuardRows ==
    {MetricRow("N01", 0, "Tech"), MetricRow("N02", 0 - 1000, "Energy"),
     MetricRow("N03", 1000, "Tech")}

GuardFrames ==
    {[cols |-> MetricColumns, rows |-> r] : r \in SeqsUpTo(GuardRows, MaxAssets)}

\* the lien labels the metrics and the documentation name, a label they do
\* not name, and the missing label
LienLabels ==
    {"1L", "First Lien", "1st Lien", "Senior Secured", "2L", "Second Lien",
     "2nd Lien", "Unsecured", "Subordinated", "Mezzanine", "Revolver", NaN}

\* one loan of $1M per lien label
LienRows ==
    {[MetricRow("N01", 1000, "Tech") EXCEPT !.lien_type = lien] : lien \in LienLabels}

LienFrames ==
    {[cols |-> MetricColumns, rows |-> r] : r \in SeqsUpTo(LienRows, MaxAssets)}

InitMetrics ==
    /\ df \in DiversityFrames \cup GuardFrames \cup LienFrames
    /\ config = WarehouseConfig
    /\ stress_cfg = StressConfig
    /\ debt_outstanding = <<>>
    /\ cash_balance = R(0)
    /\ now = 10
    /\ configs = <<>>
    /\ result = <<>>
    /\ pc = "start"
    /\ rating_in = NaN
    /\ notches = 0
    /\ published = <<>>
    /\ uploads = <<>>

\* each action is one call of a metrics function on df; the value is kept
\* under the function's name
Warf ==
    /\ pc = "start"
    /\ result' = [fn |-> "compute_warf", value |-> compute_warf(df)]
    /\ pc' = "compute_warf"
    /\ UNCHANGED <<df, config, stress_cfg, debt_outstanding, cash_balance, now, configs,
                   rating_in, notches, published, uploads>>

DiversityScore ==
    /\ pc = "start"
    /\ result' = [fn |-> "compute_diversity_score", value |-> compute_diversity_score(df)]
    /\ pc' = "compute_diversity_score"
    /\ UNCHANGED <<df, config, stress_cfg, debt_outstanding, cash_balance, now, configs,
                   rating_in, notches, published, uploads>>

Hhi ==
    /\ pc = "start"
    /\ \E group_col \in {"issuer_name", "industry_gics"} :
          result' = [fn |-> "compute_hhi", value |-> compute_hhi(df, group_col)]
    /\ pc' = "compute_hhi"
    /\ UNCHANGED <<df, config, stress_cfg, debt_outstanding, cash_balance, now, configs,
                   rating_in, notches, published, uploads>>

SingleName ==
    /\ pc = "start"
    /\ result' = [fn |-> "compute_single_name_concentration", value |-> compute_single_name_concentration(df)]
    /\ pc' = "compute_single_name_concentration"
    /\ UNCHANGED <<df, config, stress_cfg, debt_outstanding, cash_balance, now, configs,
                   rating_in, notches, published, uploads>>

LienBreakdown ==
    /\ pc = "start"
    /\ result' = [fn |-> "compute_lien_breakdown", value |-> compute_lien_breakdown(df)]
    /\ pc' = "compute_lien_breakdown"
    /\ UNCHANGED <<df, config, stress_cfg, debt_outstanding, cash_balance, now, configs,
                   rating_in, notches, published, uploads>>

PortfolioDuration ==
    /\ pc = "start"
    /\ result' = [fn |-> "compute_portfolio_duration", value |-> compute_portfolio_duration(df, now)]
    /\ pc' = "compute_portfolio_duration"
    /\ UNCHANGED <<df, config, stress_cfg, debt_outstanding, cash_balance, now, configs,
                   rating_in, notches, published, uploads>>

CouponAnalytics ==
    /\ pc = "start"
    /\ result' = [fn |-> "compute_coupon_analytics", value |-> compute_coupon_analytics(df)]
    /\ pc' = "compute_coupon_analytics"
    /\ UNCHANGED <<df, config, stress_cfg, debt_outstanding, cash_balance, now, configs,
                   rating_in, notches, published, uploads>>

CountryConcentration ==
    /\ pc = "start"
    /\ result' = [fn |-> "compute_country_concentration", value |-> compute_country_concentration(df)]
    /\ pc' = "compute_country_concentration"
    /\ UNCHANGED <<df, config, stress_cfg, debt_outstanding, cash_balance, now, configs,
                   rating_in, notches, published, uploads>>

ComplianceStatus ==
    /\ pc = "start"
    /\ result' = [fn |-> "compute_compliance_status", value |-> compute_compliance_status(df, config)]
    /\ pc' = "compute_compliance_status"
    /\ UNCHANGED <<df, config, stress_cfg, debt_outstanding, cash_balance, now, configs,
                   rating_in, notches, published, uploads>>

NextMetrics ==
    \/ Warf
    \/ DiversityScore
    \/ Hhi
    \/ SingleName
    \/ LienBreakdown
    \/ PortfolioDuration
    \/ CouponAnalytics
    \/ CountryConcentration
    \/ ComplianceStatus

SpecMetrics == InitMetrics /\ [][NextMetrics]_vars

\* the industries of the portfolio and the unique issuers of one of them
IndustriesOf(d) == {d.rows[i].industry_gics : i \in RowIdx(d)} \ {NaN}
IssuersIn(d, ind) ==
    {d.rows[i].issuer_name : i \in {j \in RowIdx(d) : d.rows[j].industry_gics = ind}}
    \ {NaN}

\* the diversity units C18 gives an issuer count
ClaimedUnits(n) ==
    CASE n = 1 -> R(1)
      [] n = 2 -> Rat(3, 2)
      [] n = 3 -> R(2)
      [] n = 4 -> Rat(233, 100)
      [] n = 5 -> Rat(267, 100)
      [] n = 6 -> R(3)
      [] n = 7 -> Rat(13, 4)
      [] n = 8 -> Rat(7, 2)
      [] n = 9 -> Rat(15, 4)
      [] n = 10 -> R(4)
      [] n > 10 -> RAdd(R(4), RMul(R(n - 10), Rat(1, 5)))

RECURSIVE ClaimedDiversity(_, _)
ClaimedDiversity(d, inds) ==
    IF inds = {} THEN R(0)
    ELSE LET ind == CHOOSE x \in inds : TRUE IN
         RAdd(ClaimedUnits(Cardinality(IssuersIn(d, ind))),
              ClaimedDiversity(d, inds \ {ind}))

\* C18: compute_diversity_score returns the sum over industries of the
\* diversity units of the industry's unique-issuer count (1 -> 1.0, 2 -> 1.5,
\* 3 -> 2.0, 4 -> 2.33, 5 -> 2.67, ..., 10 -> 4.0, and 4.0 + (n - 10) x 0.2
\* above 10); one industry with 1 issuer scores 1.0, with 10 issuers 4.0.
C18_DiversityIsSumOfUnits ==
    pc = "compute_diversity_score" =>
        result.value = ClaimedDiversity(df, IndustriesOf(df))

\* what C19 expects of each metrics function on an empty or non-positive
\* total input: 0, or the result with every number 0 and every table empty
ZeroResult(fn) ==
    CASE fn = "compute_warf" -> R(0)
      [] fn = "compute_diversity_score" -> R(0)
      [] fn = "compute_hhi" -> R(0)
      [] fn = "compute_single_name_concentration" ->
             [max_single_issuer_pct |-> R(0), max_single_issuer_name |-> ""]
      [] fn = "compute_lien_breakdown" ->
             [k \in {"1L_pct", "2L_pct", "unsecured_pct", "other_pct"} |-> R(0)]
      [] fn = "compute_portfolio_duration" ->
             [weighted_avg_duration |-> R(0), portfolio_dv01 |-> R(0),
              dv01_per_million |-> R(0)]
      [] fn = "compute_coupon_analytics" ->
             [wavg_coupon |-> R(0), wavg_floor |-> R(0), pct_with_floor |-> R(0),
              index_breakdown |-> <<>>]
      [] fn = "compute_country_concentration" -> <<>>
      [] fn = "compute_compliance_status" ->
             [oc_ratio |-> R(0), ccc_pct |-> R(0), max_industry_pct |-> R(0),
              max_industry_name |-> "", max_single_name_pct |-> R(0),
              max_single_name |-> "", second_lien_pct |-> R(0),
              unsecured_pct |-> R(0), warf |-> R(0), diversity_score |-> R(0),
              issuer_hhi |-> R(0), industry_hhi |-> R(0)]

\* C19: every portfolio metrics function returns 0 or an empty result,
\* without raising, whenever the asset collection is empty or its total par
\* is zero or negative.
C19_ZeroOnEmptyOrNonPositiveTotal ==
    (pc # "start" /\ (Empty(df) \/ SumPar(df.rows) <= 0)) =>
        result.value = ZeroResult(result.fn)

\* the par of the rows of d whose lien label falls in `bucket`; a missing
\* label is unclassified and falls in other_pct
BucketPar(d, bucket) ==
    ISum([i \in RowIdx(d) |->
            IF (IF d.rows[i].lien_type = NaN THEN "other_pct"
                ELSE LienBucket(d.rows[i].lien_type)) = bucket
            THEN d.rows[i].par_amount ELSE 0])

\* C28: compute_lien_breakdown partitions total par: on a non-empty portfolio
\* of positive total par every asset's par is counted in exactly one of
\* first-lien, second-lien, unsecured or other (unmatched and unclassified
\* labels go to other, none is dropped), so the four percentages sum to 1.
C28_LienBreakdownPartitions ==
    (pc = "compute_lien_breakdown" /\ ~Empty(df) /\ SumPar(df.rows) > 0) =>
        /\ \A b \in {"1L_pct", "2L_pct", "unsecured_pct", "other_pct"} :
               result.value[b] = Rat(BucketPar(df, b), SumPar(df.rows))
        /\ RAdd(RAdd(result.value["1L_pct"], result.value["2L_pct"]),
                RAdd(result.value["unsecured_pct"], result.value["other_pct"])) = R(1)

\* C29: lien classification is the same in the metrics and in the stress
\* engine: a label compute_lien_breakdown counts as second-lien receives
\* recovery_2l from get_recovery_rate, a label it counts as unsecured
\* receives recovery_unsecured, and only labels it counts as first-lien or
\* other receive recovery_1l.
C29_LienClassificationConsistent ==
    (/\ pc = "compute_lien_breakdown"
     /\ Len(df.rows) = 1 /\ SumPar(df.rows) > 0
     /\ df.rows[1].lien_type # NaN) =>
        LET recovery == get_recovery_rate(df.rows[1].lien_type, stress_cfg) IN
        /\ result.value["2L_pct"] = R(1) => recovery = stress_cfg.recovery_2l
        /\ result.value["unsecured_pct"] = R(1)
               => recovery = stress_cfg.recovery_unsecured
        /\ recovery = stress_cfg.recovery_1l
               => \/ result.value["1L_pct"] = R(1)
                  \/ result.value["other_pct"] = R(1)

-----------------------------------------------------------------------------
(* Tape uploads and the load of the published tapes (src/src/utils.py,     *)
(* src/src/etl.py, src/app.py).                                            *)

MaxUploads == 3
MaxClock == 4

\* the clock counts the seconds of the wall clock; a day has this many
TicksPerDay == 2

\* name.split("_") of a text
RECURSIVE SplitUnderscore(_)
SplitUnderscore(cs) ==
    IF \A i \in 1..Len(cs) : cs[i] # "_" THEN <<cs>>
    ELSE LET k == CHOOSE i \in 1..Len(cs) :
                     cs[i] = "_" /\ \A j \in 1..(i - 1) : cs[j] # "_"
         IN  <<SubSeq(cs, 1, k - 1)>> \o SplitUnderscore(SubSeq(cs, k + 1, Len(cs)))

\* "_".join(parts)
RECURSIVE JoinUnderscore(_)
JoinUnderscore(parts) ==
    IF parts = <<>> THEN <<>>
    ELSE IF Len(parts) = 1 THEN parts[1]
    ELSE parts[1] \o <<"_">> \o JoinUnderscore(Tail(parts))

\* text.replace(p, "")
RECURSIVE Remove(_, _)
Remove(cs, p) ==
    IF Len(cs) < Len(p) THEN cs
    ELSE IF SubSeq(cs, 1, Len(p)) = p THEN Remove(SubSeq(cs, Len(p) + 1, Len(cs)), p)
    ELSE <<cs[1]>> \o Remove(Tail(cs), p)

\* ingest_file(uploaded_file, RAW_DIR, source_name, as_of_date): the stem of
\* the file it writes, "{date_str}_{upload_ts}_{source_name}", kept as its
\* "_"-separated fields; date_str is a day number and upload_ts the second
\* of the day (both are zero-padded in the name, so text order is number
\* order).  The function reads the clock twice: clock_date is the reading
\* that gives date_str, clock_ts the later one that gives upload_ts
ingest_file(source_name, as_of_date, clock_date, clock_ts) ==
    LET date_str == IF as_of_date # <<>> THEN as_of_date[1]
                    ELSE clock_date \div TicksPerDay
        upload_ts == clock_ts % TicksPerDay
    IN  <<date_str, upload_ts>> \o SplitUnderscore(Chars(source_name))

\* ETLPipeline.publish(df_std, file_path.stem): the tape is written to
\* PUBLISHED_DIR under the stem of the raw file, replacing a file of that name
publish(files, stem, tape) ==
    [s \in (DOMAIN files) \cup {stem} |-> IF s = stem THEN tape ELSE files[s]]

\* the rows of one published file with the three columns the load adds
\* (the new file-name format: parts[0], parts[1], "_".join(parts[2:]))
FileRows(files, stem) ==
    {[warehouse_source |->
          Remove(JoinUnderscore(SubSeq(stem, 3, Len(stem))), Chars("_Tape")),
      data_date |-> stem[1], upload_ts |-> stem[2],
      tape |-> files[stem], asset_id |-> a] : a \in {"L1", "L2"}}

\* versions.sort_values("upload_ts").groupby([warehouse_source,
\* data_date]).tail(1): of each pair the version with the largest upload_ts
latest_versions(df_raw) ==
    {[warehouse_source |-> r.warehouse_source, data_date |-> r.data_date,
      upload_ts |-> r.upload_ts] : r \in
        {r \in df_raw : \A o \in df_raw :
            (o.warehouse_source = r.warehouse_source /\ o.data_date = r.data_date)
                => o.upload_ts <= r.upload_ts}}

\* df_all: the rows of all files, inner-merged with the latest versions
LoadPublished(files) ==
    LET df_raw == UNION {FileRows(files, stem) : stem \in DOMAIN files} IN
    {r \in df_raw :
        [warehouse_source |-> r.warehouse_source, data_date |-> r.data_date,
         upload_ts |-> r.upload_ts] \in latest_versions(df_raw)}

\* the warehouses of the selectbox of the ingestion tab
SelectboxWarehouses == {"Warehouse_Alpha", "Warehouse_Beta"}

InitTapes ==
    /\ df = [cols |-> {}, rows |-> <<>>]
    /\ config = WarehouseConfig
    /\ stress_cfg = StressConfig
    /\ debt_outstanding = <<>>
    /\ cash_balance = R(0)
    /\ now = 0
    /\ configs = <<>>
    /\ result = {}
    /\ pc = "start"
    /\ rating_in = NaN
    /\ notches = 0
    /\ published = <<>>
    /\ uploads = <<>>

\* the wall clock moves on by a second
Tick ==
    /\ now < MaxClock
    /\ now' = now + 1
    /\ UNCHANGED <<df, config, stress_cfg, debt_outstanding, cash_balance, configs, result,
                   pc, rating_in, notches, published, uploads>>

\* "Process Tape": the file is saved under the name ingest_file gives it
\* (the handler passes no as_of_date; between the two readings of the clock
\* a second may pass) and published unless validation finds a hard error;
\* the tape is known by the number of its upload
ProcessTape ==
    /\ Len(uploads) < MaxUploads
    /\ \E elapsed \in {0, 1} :
          /\ now + elapsed <= MaxClock
          /\ now' = now + elapsed
    /\ \E warehouse_name \in SelectboxWarehouses, hard_errors \in BOOLEAN :
          LET stem == ingest_file(warehouse_name, <<>>, now, now')
              tape == Len(uploads) + 1
          IN  /\ uploads' = Append(uploads,
                                   [warehouse |-> warehouse_name, date |-> stem[1],
                                    tape |-> tape, published |-> ~hard_errors])
              /\ published' = IF hard_errors THEN published
                              ELSE publish(published, stem, tape)
    /\ pc' = "uploaded"
    /\ UNCHANGED <<df, config, stress_cfg, debt_outstanding, cash_balance, configs,
                   result, rating_in, notches>>

\* a rerun of the app: the published tapes are loaded into df_all
LoadTapes ==
    /\ result' = LoadPublished(published)
    /\ pc' = "loaded"
    /\ UNCHANGED <<df, config, stress_cfg, debt_outstanding, cash_balance, now, configs,
                   rating_in, notches, published, uploads>>

NextTapes == Tick \/ ProcessTape \/ LoadTapes

SpecTapes == InitTapes /\ [][NextTapes]_vars

\* the published uploads of one (warehouse, as-of date) pair, in upload order
UploadsOf(wh, date) ==
    SelectSeq(uploads, LAMBDA u : u.published /\ u.warehouse = wh /\ u.date = date)

\* C22: after any sequence of tape uploads, for each (warehouse, as-of date)
\* the analytics data set holds exactly the rows of the most recently
\* uploaded tape of that pair (of the tapes that were published: a tape with
\* a hard validation error never enters the data set): no earlier upload is
\* preferred and the rows of two uploads are never mixed.
C22_LatestUploadWins ==
    pc = "loaded" =>
        \A wh \in SelectboxWarehouses, date \in 0..(MaxClock \div TicksPerDay) :
            LET ups == UploadsOf(wh, date)
                rows == {r \in result :
                            r.warehouse_source = Chars(wh) /\ r.data_date = date}
            IN  /\ ups = <<>> => rows = {}
                /\ ups # <<>> =>
                       /\ {r.tape : r \in rows} = {ups[Len(ups)].tape}
                       /\ {r.asset_id : r \in rows} = {"L1", "L2"}
                /\ \A r \in result : r.warehouse_source \in
                       {Chars(w) : w \in SelectboxWarehouses}

====
